---- MODULE Spec2Model ----
(***************************************************************************)
(* The record cleaner of Unified_Data_Cleaner.py (class DoctorDataCleaner) *)
(* as a state machine: the data frame it holds, the chained calls of       *)
(* run_full_cleaning, and the methods a caller may chain itself.           *)
(*                                                                         *)
(* A Python str is a sequence of one-character strings; a cell of the data *)
(* frame is a record [k, s, n]: a missing value (NaN / None), a str, or a  *)
(* float holding a whole number.                                           *)
(***************************************************************************)
EXTENDS Integers, Sequences, FiniteSets, TLC

(* ------------------------------ text --------------------------------- *)

UpperChars == <<"A","B","C","D","E","F","G","H","I","J","K","L","M","N","O","P","Q","R","S","T","U","V","W","X","Y","Z">>
LowerChars == <<"a","b","c","d","e","f","g","h","i","j","k","l","m","n","o","p","q","r","s","t","u","v","w","x","y","z">>
DigitChars == <<"0","1","2","3","4","5","6","7","8","9">>

Range(f) == {f[i] : i \in DOMAIN f}

LowerOf ==
  [c \in Range(UpperChars) |->
     LowerChars[CHOOSE i \in DOMAIN UpperChars : UpperChars[i] = c]]

\* str.lower()
lower(s) ==
  [i \in 1..Len(s) |-> IF s[i] \in DOMAIN LowerOf THEN LowerOf[s[i]] ELSE s[i]]

\* s[i:i+len(sub)] == sub
occurs_at(sub, s, i) ==
  /\ i + Len(sub) - 1 <= Len(s)
  /\ \A j \in 1..Len(sub) : s[i + j - 1] = sub[j]

\* `sub in s`
contains(sub, s) ==
  /\ Len(sub) <= Len(s)
  /\ \E i \in 1..(Len(s) - Len(sub) + 1) : occurs_at(sub, s, i)

\* s.startswith(prefix)
startswith(s, prefix) == occurs_at(prefix, s, 1)

\* s.replace(old, ''): every non-overlapping occurrence, left to right
RECURSIVE str_remove(_, _)
str_remove(s, old) ==
  IF Len(s) < Len(old) \/ Len(old) = 0 THEN s
  ELSE IF occurs_at(old, s, 1)
       THEN str_remove(SubSeq(s, Len(old) + 1, Len(s)), old)
       ELSE <<s[1]>> \o str_remove(Tail(s), old)

IsDigit(c) == c \in Range(DigitChars)

DigitVal == [c \in Range(DigitChars) |->
               (CHOOSE i \in DOMAIN DigitChars : DigitChars[i] = c) - 1]

\* int(digits), digits a non-empty run of decimal digits
RECURSIVE int_of(_)
int_of(digits) ==
  IF Len(digits) = 0 THEN 0
  ELSE 10 * int_of(SubSeq(digits, 1, Len(digits) - 1)) + DigitVal[digits[Len(digits)]]

\* str(n) of a whole number n >= 0
RECURSIVE str_of_int(_)
str_of_int(n) ==
  IF n < 10 THEN <<DigitChars[n + 1]>>
  ELSE str_of_int(n \div 10) \o <<DigitChars[(n % 10) + 1]>>

\* re.search('(\d+)', s): the first maximal run of decimal digits, << >> when none
first_digit_run(s) ==
  LET at == {i \in 1..Len(s) : IsDigit(s[i])} IN
  IF at = {} THEN << >>
  ELSE LET a == CHOOSE i \in at : \A k \in at : i <= k
           b == CHOOSE j \in a..Len(s) :
                  /\ \A k \in a..j : IsDigit(s[k])
                  /\ (j = Len(s) \/ ~IsDigit(s[j + 1]))
       IN SubSeq(s, a, b)

(* ------------------------------ cells -------------------------------- *)

NaN    == [k |-> "nan", s |-> << >>, n |-> 0]
Str(s) == [k |-> "str", s |-> s, n |-> 0]
Num(n) == [k |-> "float", s |-> << >>, n |-> n]

isna(c)  == c.k = "nan"
isstr(c) == c.k = "str"

\* Series.astype(str) on one cell: str(nan) = 'nan', str(12.0) = '12.0'
astype_str(c) ==
  IF isstr(c) THEN c.s
  ELSE IF isna(c) THEN <<"n","a","n">>
  ELSE str_of_int(c.n) \o <<".","0">>

(* --------------------------- vocabularies ---------------------------- *)

standard_specialties ==
  <<
    <<"A","e","s","t","h","e","t","i","c"," ","D","e","r","m","a","t","o","l","o","g","i","s","t">>,
    <<"A","l","l","e","r","g","y"," ","S","k","i","n","-","V","D">>,
    <<"A","n","d","r","o","l","o","g","i","s","t">>,
    <<"A","n","e","s","t","h","e","s","i","o","l","o","g","i","s","t">>,
    <<"B","i","o","c","h","e","m","i","s","t">>,
    <<"C","a","r","d","i","a","c"," ","S","u","r","g","e","o","n">>,
    <<"C","a","r","d","i","o","l","o","g","i","s","t">>,
    <<"C","a","r","d","i","o","t","h","o","r","a","c","i","c"," ","S","u","r","g","e","o","n">>,
    <<"C","h","e","s","t"," ","S","p","e","c","i","a","l","i","s","t">>,
    <<"C","l","i","n","i","c","a","l"," ","N","u","t","r","i","t","i","o","n","i","s","t">>,
    <<"C","o","l","o","r","e","c","t","a","l"," ","S","u","r","g","e","o","n">>,
    <<"C","o","s","m","e","t","i","c"," ","D","e","n","t","i","s","t">>,
    <<"C","o","s","m","e","t","o","l","o","g","i","s","t">>,
    <<"C","r","i","t","i","c","a","l"," ","C","a","r","e"," ","S","p","e","c","i","a","l","i","s","t">>,
    <<"D","e","n","t","i","s","t">>,
    <<"D","e","r","m","a","t","o","l","o","g","i","s","t">>,
    <<"D","e","r","m","a","t","o","s","u","r","g","e","o","n">>,
    <<"D","i","a","b","e","t","e","s"," ","S","p","e","c","i","a","l","i","s","t">>,
    <<"D","i","a","b","e","t","o","l","o","g","i","s","t">>,
    <<"D","i","e","t","i","c","i","a","n">>,
    <<"E","n","d","o","c","r","i","n","o","l","o","g","i","s","t">>,
    <<"E","p","i","d","e","m","i","o","l","o","g","i","s","t">>,
    <<"F","a","m","i","l","y"," ","M","e","d","i","c","i","n","e"," ","S","p","e","c","i","a","l","i","s","t">>,
    <<"G","a","s","t","r","o","e","n","t","e","r","o","l","o","g","i","s","t">>,
    <<"G","e","n","e","r","a","l"," ","P","h","y","s","i","c","i","a","n">>,
    <<"G","e","n","e","r","a","l"," ","S","u","r","g","e","o","n">>,
    <<"G","e","r","i","a","t","r","i","c","i","a","n">>,
    <<"G","y","n","e","c","o","l","o","g","i","c"," ","O","n","c","o","l","o","g","i","s","t">>,
    <<"G","y","n","e","c","o","l","o","g","i","s","t">>,
    <<"H","a","i","r"," ","T","r","a","n","s","p","l","a","n","t"," ","S","u","r","g","e","o","n">>,
    <<"H","e","m","a","t","o","l","o","g","i","s","t">>,
    <<"H","e","p","a","t","o","b","i","l","i","a","r","y"," ","S","u","r","g","e","o","n">>,
    <<"H","e","p","a","t","o","l","o","g","i","s","t">>,
    <<"I","m","m","u","n","o","l","o","g","i","s","t">>,
    <<"I","n","f","e","r","t","i","l","i","t","y"," ","S","p","e","c","i","a","l","i","s","t">>,
    <<"I","n","t","e","r","n","a","l"," ","M","e","d","i","c","i","n","e">>,
    <<"I","n","t","e","r","n","a","l"," ","M","e","d","i","c","i","n","e"," ","S","p","e","c","i","a","l","i","s","t">>,
    <<"I","n","t","e","r","v","e","n","t","i","o","n","a","l"," ","C","a","r","d","i","o","l","o","g","i","s","t">>,
    <<"L","a","p","a","r","o","s","c","o","p","i","c"," ","S","u","r","g","e","o","n">>,
    <<"L","a","p","a","r","o","s","c","o","p","i","s","t">>,
    <<"M","a","x","i","l","l","o","f","a","c","i","a","l"," ","S","u","r","g","e","o","n">>,
    <<"M","e","d","i","c","i","n","e"," ","S","p","e","c","i","a","l","i","s","t">>,
    <<"M","i","c","r","o","b","i","o","l","o","g","i","s","t">>,
    <<"N","e","o","n","a","t","o","l","o","g","i","s","t">>,
    <<"N","e","p","h","r","o","l","o","g","i","s","t">>,
    <<"N","e","u","r","o","l","o","g","i","s","t">>,
    <<"N","e","u","r","o","s","u","r","g","e","o","n">>,
    <<"N","u","t","r","i","t","i","o","n","i","s","t">>,
    <<"O","b","s","t","e","t","r","i","c","i","a","n">>,
    <<"O","n","c","o","l","o","g","i","s","t">>,
    <<"O","p","h","t","h","a","l","m","o","l","o","g","i","s","t">>,
    <<"O","r","t","h","o","p","e","d","i","c"," ","S","u","r","g","e","o","n">>,
    <<"O","r","t","h","o","p","e","d","i","s","t">>,
    <<"E","N","T">>,
    <<"P","a","i","n"," ","M","a","n","a","g","e","m","e","n","t"," ","S","p","e","c","i","a","l","i","s","t">>,
    <<"P","a","t","h","o","l","o","g","i","s","t">>,
    <<"P","e","d","i","a","t","r","i","c"," ","C","a","r","d","i","o","l","o","g","i","s","t">>,
    <<"P","e","d","i","a","t","r","i","c"," ","S","u","r","g","e","o","n">>,
    <<"P","e","d","i","a","t","r","i","c","i","a","n">>,
    <<"P","h","y","s","i","c","a","l"," ","M","e","d","i","c","i","n","e">>,
    <<"P","h","y","s","i","o","t","h","e","r","a","p","i","s","t">>,
    <<"P","l","a","s","t","i","c"," ","S","u","r","g","e","o","n">>,
    <<"P","s","y","c","h","i","a","t","r","i","s","t">>,
    <<"P","s","y","c","h","o","l","o","g","i","s","t">>,
    <<"P","u","l","m","o","n","o","l","o","g","i","s","t">>,
    <<"R","a","d","i","o","l","o","g","i","s","t">>,
    <<"R","h","e","u","m","a","t","o","l","o","g","i","s","t">>,
    <<"S","e","x","u","a","l"," ","M","e","d","i","c","i","n","e"," ","S","p","e","c","i","a","l","i","s","t">>,
    <<"S","o","n","o","l","o","g","i","s","t">>,
    <<"S","p","i","n","e"," ","S","u","r","g","e","o","n">>,
    <<"S","p","o","r","t","s"," ","P","h","y","s","i","c","i","a","n">>,
    <<"S","u","r","g","e","o","n">>,
    <<"T","h","o","r","a","c","i","c"," ","S","u","r","g","e","o","n">>
  >>

country_names ==
  <<
    <<"B","a","n","g","l","a","d","e","s","h">>,
    <<"I","n","d","i","a">>,
    <<"P","a","k","i","s","t","a","n">>,
    <<"S","r","i"," ","L","a","n","k","a">>,
    <<"N","e","p","a","l">>,
    <<"U","n","i","t","e","d"," ","S","t","a","t","e","s">>,
    <<"U","S","A">>,
    <<"C","a","n","a","d","a">>,
    <<"U","K">>,
    <<"U","n","i","t","e","d"," ","K","i","n","g","d","o","m">>,
    <<"A","u","s","t","r","a","l","i","a">>,
    <<"S","i","n","g","a","p","o","r","e">>,
    <<"M","a","l","a","y","s","i","a">>,
    <<"T","h","a","i","l","a","n","d">>
  >>

unwanted == <<"D","o","m","i","c","i","l","i","a","r","y"," ","S","e","r","v","i","c","e","s",","," ","F","i","n","d"," ","D","o","c","t","o","r",","," ">>

(* ------------------------- the data frame ---------------------------- *)

\* DataFrame[mask] is SelectSeq: the rows that pass, index labels kept

\* remove_bmdc_profiles: qualifications.astype(str).str.startswith('BMDC')
bmdc_mask(row) == startswith(astype_str(row.qualifications), <<"B","M","D","C">>)

\* as remove_bmdc_profiles with str.contains in place of str.startswith
remove_bmdc_profiles_anywhere(rows) ==
  LET keep(row) == ~contains(<<"B","M","D","C">>, astype_str(row.qualifications))
  IN  SelectSeq(rows, keep)

remove_bmdc_profiles(rows) ==
  LET keep(row) == ~bmdc_mask(row) IN SelectSeq(rows, keep)

\* has_repeated_values: the row without designation, NaN dropped, against its unique()
has_repeated_values(row) ==
  LET temp_row == <<row.profile_url, row.name, row.qualifications, row.specialty,
                    row.experience, row.hospital, row.location, row.country>>
      non_nan  == {i \in DOMAIN temp_row : ~isna(temp_row[i])}
  IN  \E i \in non_nan, j \in non_nan : i < j /\ temp_row[i] = temp_row[j]

remove_repeated_values(rows) ==
  LET keep(row) == ~has_repeated_values(row) IN SelectSeq(rows, keep)

\* clean_qualifications: .str.replace(unwanted, '', regex=False); NaN stays NaN
strip_unwanted(c) == IF isstr(c) THEN Str(str_remove(c.s, unwanted)) ELSE c

clean_qualifications(rows) ==
  [i \in DOMAIN rows |->
     [rows[i] EXCEPT !.qualifications = strip_unwanted(rows[i].qualifications)]]

\* clean_experience on one cell: fillna('1'), astype(str), str.extract('(\d+)'),
\* astype(float)
experience_years(c) ==
  LET filled == IF isna(c) THEN Str(<<"1">>) ELSE c
      run    == first_digit_run(astype_str(filled))
  IN  IF run = << >> THEN NaN ELSE Num(int_of(run))

clean_experience(rows) ==
  [i \in DOMAIN rows |->
     [rows[i] EXCEPT !.experience = experience_years(rows[i].experience)]]

\* first_standard with the comparison made on the text as written
RECURSIVE first_standard_as_written(_, _)
first_standard_as_written(text, i) ==
  IF i > Len(standard_specialties) THEN Str(text)
  ELSE IF contains(standard_specialties[i], text)
       THEN Str(standard_specialties[i])
       ELSE first_standard_as_written(text, i + 1)

\* clean_specialty: the loop over self.standard_specialties from entry i on
RECURSIVE first_standard(_, _)
first_standard(text, i) ==
  IF i > Len(standard_specialties) THEN Str(text)
  ELSE IF contains(lower(standard_specialties[i]), lower(text))
       THEN Str(standard_specialties[i])
       ELSE first_standard(text, i + 1)

clean_specialty(c) ==
  IF ~isstr(c) \/ c.s = <<"N","/","A">> THEN c ELSE first_standard(c.s, 1)

standardize_specialties(rows) ==
  [i \in DOMAIN rows |->
     [rows[i] EXCEPT !.specialty = clean_specialty(rows[i].specialty)]]

\* find_country: the loop over self.country_names from entry i on; None is a
\* missing value
RECURSIVE first_country(_, _)
first_country(location_lower, i) ==
  IF i > Len(country_names) THEN NaN
  ELSE IF contains(lower(country_names[i]), location_lower)
       THEN Str(country_names[i])
       ELSE first_country(location_lower, i + 1)

find_country(c) == IF ~isstr(c) THEN NaN ELSE first_country(lower(c.s), 1)

\* extract_country that fills the country only where the record has none
extract_country_where_missing(rows) ==
  [i \in DOMAIN rows |->
     IF isna(rows[i].country)
     THEN [rows[i] EXCEPT !.country = find_country(rows[i].location)]
     ELSE rows[i]]

extract_country(rows) ==
  [i \in DOMAIN rows |->
     [rows[i] EXCEPT !.country = find_country(rows[i].location)]]

\* as filter_countries with the rows of no country kept
filter_countries_or_absent(rows, countries) ==
  LET keep(row) == isna(row.country)
                   \/ (isstr(row.country) /\ row.country.s \in Range(countries))
  IN  SelectSeq(rows, keep)

\* filter_countries: country.isin(countries)
filter_countries(rows, countries) ==
  LET keep(row) == isstr(row.country) /\ row.country.s \in Range(countries)
  IN  SelectSeq(rows, keep)

\* as remove_duplicates with keep='last'
remove_duplicates_keep_last(rows) ==
  LET last(i) == \A j \in (i + 1)..Len(rows) : rows[j].profile_url # rows[i].profile_url
      RECURSIVE from(_)
      from(i) == IF i > Len(rows) THEN << >>
                 ELSE (IF last(i) THEN <<rows[i]>> ELSE << >>) \o from(i + 1)
  IN  from(1)

\* drop_duplicates(subset=['profile_url'], keep='first'); missing keys compare equal
remove_duplicates(rows) ==
  LET first(i) == \A j \in 1..(i - 1) : rows[j].profile_url # rows[i].profile_url
      RECURSIVE from(_)
      from(i) == IF i > Len(rows) THEN << >>
                 ELSE (IF first(i) THEN <<rows[i]>> ELSE << >>) \o from(i + 1)
  IN  from(1)

\* drop_missing_critical: dropna on hospital, then location, then specialty
drop_missing_critical(rows) ==
  LET has_hospital(row)  == ~isna(row.hospital)
      has_location(row)  == ~isna(row.location)
      has_specialty(row) == ~isna(row.specialty)
  IN  SelectSeq(SelectSeq(SelectSeq(rows, has_hospital), has_location),
                  has_specialty)

\* the records relabelled in the reverse of their order
reset_index_reversed(rows) ==
  [i \in DOMAIN rows |-> [rows[Len(rows) + 1 - i] EXCEPT !.index = i - 1]]

\* reset_index(drop=True): labels 0 .. n-1 in row order
reset_index(rows) == [i \in DOMAIN rows |-> [rows[i] EXCEPT !.index = i - 1]]

(* --------------------------- the CSV file ---------------------------- *)

\* pandas' default na_values that the files of the model can hold
na_values == {<< >>, <<"N","/","A">>, <<"N","A">>, <<"N","a","N">>, <<"n","a","n">>, <<"n","u","l","l">>, <<"N","o","n","e">>}

parse_cell(text) == IF text \in na_values THEN NaN ELSE Str(text)

Columns == {"profile_url", "name", "qualifications", "specialty", "experience",
            "hospital", "location", "country", "designation"}

\* a field read_csv parses as a number: decimal digits, with ".0" after them as
\* to_csv writes a whole float
is_numeric_text(text) ==
  LET digits == IF Len(text) > 2 /\ SubSeq(text, Len(text) - 1, Len(text)) = <<".","0">>
                THEN SubSeq(text, 1, Len(text) - 2) ELSE text
  IN  Len(digits) > 0 /\ \A i \in DOMAIN digits : IsDigit(digits[i])

numeric_value(text) == int_of(first_digit_run(text))

\* the experience column is numeric when every field of it is missing or a number
experience_is_numeric(lines) ==
  \A i \in DOMAIN lines :
     lines[i].experience \in na_values \/ is_numeric_text(lines[i].experience)

\* pd.read_csv: every field parsed, a RangeIndex 0 .. n-1 as the index
read_csv(lines) ==
  [i \in DOMAIN lines |->
     [c \in Columns \cup {"index"} |->
        IF c = "index" THEN i - 1
        ELSE IF c = "experience" /\ experience_is_numeric(lines)
                /\ lines[i][c] \notin na_values
             THEN Num(numeric_value(lines[i][c]))
             ELSE parse_cell(lines[i][c])]]

\* DataFrame.to_csv(index=False): a missing value is written as an empty field,
\* a float as its str()
to_csv(rows) ==
  [i \in DOMAIN rows |->
     [c \in Columns |-> IF isna(rows[i][c]) THEN << >> ELSE astype_str(rows[i][c])]]

\* the dtype read_csv infers for the qualifications column is object when the
\* file has no row or some row holds text there, float64 when every field is
\* missing
qualifications_is_object(lines) ==
  \/ lines = << >>
  \/ \E i \in DOMAIN lines : isstr(parse_cell(lines[i].qualifications))

(* ------------------------------ inputs ------------------------------- *)

MaxRows == 2

BaseLine ==
  [profile_url    |-> <<"u","1">>,
   name           |-> <<"D","r","."," ","A">>,
   qualifications |-> <<"M","B","B","S">>,
   specialty      |-> <<"C","a","r","d","i","o","l","o","g","i","s","t">>,
   experience     |-> <<"5"," ","Y","e","a","r","s"," ","o","f"," ","E","x","p","e","r","i","e","n","c","e">>,
   hospital       |-> <<"S","q","u","a","r","e"," ","H","o","s","p","i","t","a","l">>,
   location       |-> <<"D","h","a","k","a",","," ","B","a","n","g","l","a","d","e","s","h">>,
   country        |-> << >>,
   designation    |-> << >>]

With(line, column, text) == [line EXCEPT ![column] = text]

\* lines that differ from BaseLine in what one stage looks at
LinePool ==
  {BaseLine,
   With(BaseLine, "profile_url", <<"u","2">>),
   With(BaseLine, "profile_url", << >>),
   With(BaseLine, "name", <<"N","/","A">>),
   With(BaseLine, "qualifications", <<"N","/","A">>),
   With(BaseLine, "qualifications", <<"B","M","D","C"," ","1","2">>),
   With(BaseLine, "qualifications", unwanted \o <<"B","M","D","C"," ","1","2">>),
   With(BaseLine, "qualifications", unwanted \o <<"M","B","B","S">>),
   With(BaseLine, "qualifications",
        <<"D","o","m","i","c","i","l","i","a","r","y"," ","S","e","r","v","i","c","e","s",","," ","F","i","n","d"," ","D","o","c","t">> \o unwanted \o <<"o","r",","," ","M","B","B","S">>),
   With(BaseLine, "specialty", <<"N","/","A">>),
   With(BaseLine, "specialty", <<"S","e","n","i","o","r"," ","C","o","n","s","u","l","t","a","n","t"," ","C","a","r","d","i","o","l","o","g","i","s","t">>),
   With(BaseLine, "specialty", <<"H","o","m","e","o","p","a","t","h">>),
   With(BaseLine, "experience", <<"N","/","A">>),
   With(BaseLine, "experience", <<"Y","e","a","r","s"," ","o","f"," ","E","x","p","e","r","i","e","n","c","e">>),
   With(BaseLine, "hospital", <<"N","/","A">>),
   With(BaseLine, "hospital", <<"D","h","a","k","a",","," ","B","a","n","g","l","a","d","e","s","h">>),
   With(BaseLine, "location", <<"N","/","A">>),
   With(BaseLine, "location", <<"I","n","d","i","a">>),
   With(BaseLine, "location", <<"K","a","t","h","m","a","n","d","u",","," ","N","e","p","a","l">>),
   With(BaseLine, "location", <<"1","2"," ","L","a","k","e"," ","R","o","a","d">>),
   With(BaseLine, "country", <<"N","e","p","a","l">>),
   With(BaseLine, "designation", <<"C","a","r","d","i","o","l","o","g","i","s","t">>),
   With(With(BaseLine, "name", <<"C","a","r","d","i","o","l","o","g","i","s","t">>),
        "specialty", <<"S","e","n","i","o","r"," ","C","o","n","s","u","l","t","a","n","t"," ","C","a","r","d","i","o","l","o","g","i","s","t">>)}

\* lines for the files of several rows: keys that repeat, rows a filter drops
RowPool ==
  {BaseLine,
   With(BaseLine, "profile_url", <<"u","2">>),
   With(BaseLine, "profile_url", << >>),
   With(BaseLine, "hospital", <<"N","/","A">>),
   With(BaseLine, "qualifications", <<"B","M","D","C"," ","1","2">>),
   With(BaseLine, "location", <<"K","a","t","h","m","a","n","d","u",","," ","N","e","p","a","l">>),
   With(BaseLine, "location", <<"I","n","d","i","a">>),
   With(BaseLine, "specialty", <<"S","e","n","i","o","r"," ","C","o","n","s","u","l","t","a","n","t"," ","C","a","r","d","i","o","l","o","g","i","s","t">>)}

RECURSIVE FilesUpTo(_)
FilesUpTo(n) ==
  IF n = 0 THEN {<< >>}
  ELSE LET shorter == FilesUpTo(n - 1) IN
       shorter \cup {Append(f, l) : f \in {g \in shorter : Len(g) = n - 1}, l \in RowPool}

PipelineFiles == {<<l>> : l \in LinePool} \cup FilesUpTo(MaxRows)

\* one-row files for the calls of a single method
SpecialtyTexts ==
  Range(standard_specialties) \cup
  {<<"N","/","A">>, <<"S","e","n","i","o","r"," ","C","o","n","s","u","l","t","a","n","t"," ","C","a","r","d","i","o","l","o","g","i","s","t">>, <<"H","o","m","e","o","p","a","t","h">>, <<"d","e","r","m","a","t","o","l","o","g","i","s","t">>,
   <<"C","H","I","L","D"," ","N","E","U","R","O","L","O","G","I","S","T">>, <<"C","o","n","s","u","l","t","a","n","t"," ","N","e","u","r","o","s","u","r","g","e","o","n"," ","&"," ","S","p","i","n","e"," ","S","u","r","g","e","o","n">>,
   <<"P","a","e","d","i","a","t","r","i","c"," ","D","e","n","t","i","s","t","r","y">>, <<"P","a","t","i","e","n","t"," ","C","a","r","e">>, <<"O","n","c","o","l","o","g","i","s","t",","," ","G","y","n","e","c","o","l","o","g","i","c"," ","O","n","c","o","l","o","g","i","s","t">>,
   <<"S","u","r","g","e","o","n"," ","(","C","a","r","d","i","a","c"," ","S","u","r","g","e","o","n",")">>, <<"M","e","d","i","c","i","n","e">>}

ExperienceTexts ==
  {<<"N","/","A">>, <<"1","2"," ","Y","e","a","r","s"," ","o","f"," ","E","x","p","e","r","i","e","n","c","e"," ","O","v","e","r","a","l","l">>, <<"O","v","e","r"," ","5"," ","y","r","s">>, <<"Y","e","a","r","s"," ","o","f"," ","E","x","p","e","r","i","e","n","c","e">>,
   <<"1">>, <<"0","0","7"," ","y","r","s">>, <<"3","-","4"," ","Y","e","a","r","s">>, <<"S","i","n","c","e"," ","2","0","0","5",","," ","1","9"," ","Y","e","a","r","s"," ","o","f"," ","E","x","p","e","r","i","e","n","c","e">>, <<"2","0","+">>,
   <<"E","x","p","e","r","i","e","n","c","e"," ","O","v","e","r","a","l","l">>}

LocationTexts ==
  {<<"N","/","A">>, <<"4","5","6"," ","M","G"," ","R","o","a","d",","," ","B","a","n","g","a","l","o","r","e",","," ","I","n","d","i","a">>, <<"D","h","a","n","m","o","n","d","i",","," ","D","h","a","k","a",","," ","B","a","n","g","l","a","d","e","s","h">>,
   <<"I","N","D","I","A">>, <<"d","h","a","k","a",","," ","b","a","n","g","l","a","d","e","s","h">>, <<"I","n","d","i","a",","," ","B","a","n","g","l","a","d","e","s","h">>, <<"I","n","d","i","a","n","a",","," ","U","S","A">>,
   <<"N","e","w"," ","Y","o","r","k",","," ","U","n","i","t","e","d"," ","S","t","a","t","e","s">>, <<"L","o","n","d","o","n",","," ","U","K">>, <<"L","o","n","d","o","n",","," ","U","n","i","t","e","d"," ","K","i","n","g","d","o","m">>,
   <<"C","o","l","o","m","b","o",","," ","S","r","i"," ","L","a","n","k","a">>, <<"1","2"," ","L","a","k","e"," ","R","o","a","d">>, <<"K","a","t","h","m","a","n","d","u",","," ","N","e","p","a","l">>, <<"B","a","n","g","k","o","k">>}

CountryTexts == {<< >>, <<"N","e","p","a","l">>, <<"I","n","d","i","a">>}

MaxCallRows == 1

RECURSIVE RowsUpTo(_, _)
RowsUpTo(n, lines) ==
  IF n = 0 THEN {<< >>}
  ELSE LET shorter == RowsUpTo(n - 1, lines) IN
       shorter \cup {Append(f, l) : f \in {g \in shorter : Len(g) = n - 1}, l \in lines}

SpecialtyFiles  ==
  RowsUpTo(MaxCallRows, {With(BaseLine, "specialty", t) : t \in SpecialtyTexts})
ExperienceFiles ==
  RowsUpTo(MaxCallRows, {With(BaseLine, "experience", t) : t \in ExperienceTexts})
LocationFiles   ==
  RowsUpTo(MaxCallRows, {With(With(BaseLine, "location", t), "country", c) :
                           t \in LocationTexts, c \in CountryTexts})

(* ----------------------------- callers ------------------------------- *)

\* a caller is a sequence of statements, a statement a chain of method calls
\* on the cleaner: cleaner.m1().m2() ...

\* run_full_cleaning(filter_countries)
run_full_cleaning(with_filter) ==
  <<<<"load_data", "show_initial_stats", "remove_bmdc_profiles",
      "remove_repeated_values", "clean_qualifications", "clean_experience",
      "standardize_specialties", "extract_country">>>>
  \o (IF with_filter THEN <<<<"filter_countries">>>> ELSE << >>)
  \o <<<<"remove_duplicates", "drop_missing_critical", "reset_index", "save",
        "show_final_stats">>>>

\* the methods that change the data frame, as run_full_cleaning orders them,
\* chained by a caller in one statement
stage_chain(with_filter) ==
  <<<<"load_data", "remove_bmdc_profiles", "remove_repeated_values",
      "clean_qualifications", "clean_experience", "standardize_specialties",
      "extract_country">>
    \o (IF with_filter THEN <<"filter_countries">> ELSE << >>)
    \o <<"remove_duplicates", "drop_missing_critical", "reset_index", "save",
         "show_final_stats">>>>

\* a second cleaner made on the output file of the first:
\* DoctorDataCleaner(input_file=<the first one's output_file>, ...)
rerun_chain(with_filter) ==
  stage_chain(with_filter) \o <<<<"__init__">>>> \o stage_chain(with_filter)

\* the four normalization methods, chained twice over
normalize_chain ==
  <<"clean_qualifications", "clean_experience", "standardize_specialties",
    "extract_country">>

Programs ==
  [run_full_cleaning    |-> run_full_cleaning(TRUE),
   run_full_cleaning_nf |-> run_full_cleaning(FALSE),
   stages               |-> stage_chain(TRUE),
   stages_nf            |-> stage_chain(FALSE),
   rerun                |-> rerun_chain(TRUE),
   rerun_nf             |-> rerun_chain(FALSE),
   normalize_twice      |-> <<<<"load_data">> \o normalize_chain \o normalize_chain>>,
   specialty            |-> <<<<"load_data", "standardize_specialties">>>>,
   experience           |-> <<<<"load_data", "clean_experience">>>>,
   country              |-> <<<<"load_data", "extract_country">>>>]

FilesOf ==
  [run_full_cleaning    |-> PipelineFiles,
   run_full_cleaning_nf |-> PipelineFiles,
   stages               |-> PipelineFiles,
   stages_nf            |-> PipelineFiles,
   rerun                |-> PipelineFiles,
   rerun_nf             |-> PipelineFiles,
   normalize_twice      |-> PipelineFiles,
   specialty            |-> SpecialtyFiles,
   experience           |-> ExperienceFiles,
   country              |-> LocationFiles]

(* ------------------------------ state -------------------------------- *)

VARIABLES
  file,     \* the lines of input_file
  prog,     \* the caller
  si, ci,   \* the statement of the caller and the call in it that comes next
  recv,     \* what the next chained call is made on: "self" or "None"
  outcome,  \* "running", "returned" or "raised"
  df,       \* self.df (<< >> before load_data)
  prev,     \* self.df as the last call found it
  log,      \* the methods called so far
  saved,    \* what save() wrote to output_file
  wrote,    \* whether save() wrote output_file
  page_text,  \* the scraper: the text of the body of the profile page, line by line
  name_elem,  \* the heading element find_element looks for on that page
  lines,      \* lines of scrape_profile
  details,    \* details of scrape_profile
  pc,         \* where scrape_profile is
  listing,        \* run of the scraper: the search pages of the site, by page_num
  prior_file,     \* output_file as run found it
  output_file,    \* the file at self.output_file
  existing_urls,  \* self.existing_urls
  all_data,       \* self.all_data
  all_urls,       \* all_urls of run
  page_num,       \* page_num of phase 1
  idx,            \* idx of phase 2
  run_pc,         \* where run is
  records_to_fix, \* the data fixer: records_to_fix of main
  fix_at,         \* the place in records_to_fix of the row iterrows gives next
  fixed_counts,   \* fixed_counts of main
  fix_pc          \* where main is

cleaner_vars == <<file, prog, si, ci, recv, outcome, df, prev, log, saved, wrote>>

scraper_vars == <<page_text, name_elem, lines, details, pc>>

run_vars == <<listing, prior_file, output_file, existing_urls, all_data, all_urls,
              page_num, idx, run_pc>>

fixer_vars == <<records_to_fix, fix_at, fixed_counts, fix_pc>>

vars == <<file, prog, si, ci, recv, outcome, df, prev, log, saved, wrote,
          page_text, name_elem, lines, details, pc,
          listing, prior_file, output_file, existing_urls, all_data, all_urls,
          page_num, idx, run_pc,
          records_to_fix, fix_at, fixed_counts, fix_pc>>

\* no file at output_file
NoFile == [exists |-> FALSE, columns |-> {}, rows |-> << >>]

\* the scraper is not running
NoRun ==
  /\ listing = << >>
  /\ prior_file = NoFile /\ output_file = NoFile
  /\ existing_urls = {} /\ all_data = << >> /\ all_urls = << >>
  /\ page_num = 0 /\ idx = 0
  /\ run_pc = "idle"

\* the data fixer is not running
NoFix ==
  /\ records_to_fix = << >> /\ fix_at = 0
  /\ fixed_counts = [specialty |-> 0, hospital |-> 0, location |-> 0]
  /\ fix_pc = "idle"

\* no profile page is being scraped
NoProfile ==
  /\ page_text = << >> /\ name_elem = << >>
  /\ lines = << >> /\ details = << >>
  /\ pc = "idle"

PipelineCallers ==
  {"run_full_cleaning", "run_full_cleaning_nf", "stages", "stages_nf", "rerun",
   "rerun_nf", "normalize_twice"}

MethodCallers == {"specialty", "experience", "country"}

Start(callers) ==
  /\ prog \in callers
  /\ file \in FilesOf[prog]
  /\ si = 1 /\ ci = 1
  /\ recv = "self"
  /\ outcome = "running"
  /\ df = << >> /\ prev = << >>
  /\ log = << >>
  /\ saved = << >> /\ wrote = FALSE
  /\ NoProfile
  /\ NoRun
  /\ NoFix

Init == Start(PipelineCallers)

next_call == Programs[prog][si][ci]

\* the call of method m on the cleaner comes next
Calls(m) ==
  /\ outcome = "running"
  /\ recv = "self"
  /\ next_call = m

\* method m returns value: the chain goes on with it, the next statement starts
\* on the cleaner again, the last statement ends the caller
Returns(m, value) ==
  /\ log' = Append(log, m)
  /\ prev' = df
  /\ IF ci < Len(Programs[prog][si])
     THEN si' = si /\ ci' = ci + 1 /\ recv' = value /\ outcome' = "running"
     ELSE /\ si' = si + 1 /\ ci' = 1 /\ recv' = "self"
          /\ outcome' = IF si < Len(Programs[prog]) THEN "running" ELSE "returned"
  /\ UNCHANGED <<file, prog>>
  /\ UNCHANGED scraper_vars
  /\ UNCHANGED <<run_vars, fixer_vars>>

\* m raises
Raises(m) ==
  /\ log' = Append(log, m)
  /\ outcome' = "raised"
  /\ UNCHANGED <<file, prog, si, ci, recv, df, prev, saved, wrote>>
  /\ UNCHANGED scraper_vars
  /\ UNCHANGED <<run_vars, fixer_vars>>

\* __init__ of a second cleaner whose input_file is the file save() wrote
NewCleaner ==
  /\ Calls("__init__")
  /\ wrote
  /\ file' = to_csv(saved)
  /\ df' = << >> /\ prev' = df
  /\ log' = << >>
  /\ si' = si + 1 /\ ci' = 1 /\ recv' = "self" /\ outcome' = "running"
  /\ saved' = << >> /\ wrote' = FALSE
  /\ UNCHANGED prog
  /\ UNCHANGED scraper_vars
  /\ UNCHANGED <<run_vars, fixer_vars>>

load_data ==
  /\ Calls("load_data")
  /\ df' = read_csv(file)
  /\ Returns("load_data", "self")
  /\ UNCHANGED <<saved, wrote>>

\* show_initial_stats has no return statement
show_initial_stats ==
  /\ Calls("show_initial_stats")
  /\ Returns("show_initial_stats", "None")
  /\ UNCHANGED <<df, saved, wrote>>

\* a call chained on None: AttributeError
AttributeError ==
  /\ outcome = "running"
  /\ recv = "None"
  /\ outcome' = "raised"
  /\ UNCHANGED <<file, prog, si, ci, recv, df, prev, log, saved, wrote>>
  /\ UNCHANGED scraper_vars
  /\ UNCHANGED <<run_vars, fixer_vars>>

RemoveBmdcProfiles ==
  /\ Calls("remove_bmdc_profiles")
  /\ df' = remove_bmdc_profiles(df)
  /\ Returns("remove_bmdc_profiles", "self")
  /\ UNCHANGED <<saved, wrote>>

RemoveRepeatedValues ==
  /\ Calls("remove_repeated_values")
  /\ df' = remove_repeated_values(df)
  /\ Returns("remove_repeated_values", "self")
  /\ UNCHANGED <<saved, wrote>>

\* the .str accessor raises AttributeError on a float64 column
CleanQualifications ==
  /\ Calls("clean_qualifications")
  /\ IF qualifications_is_object(file) \/ "clean_qualifications" \in Range(log)
     THEN /\ df' = clean_qualifications(df)
          /\ Returns("clean_qualifications", "self")
          /\ UNCHANGED <<saved, wrote>>
     ELSE Raises("clean_qualifications")

CleanExperience ==
  /\ Calls("clean_experience")
  /\ df' = clean_experience(df)
  /\ Returns("clean_experience", "self")
  /\ UNCHANGED <<saved, wrote>>

StandardizeSpecialties ==
  /\ Calls("standardize_specialties")
  /\ df' = standardize_specialties(df)
  /\ Returns("standardize_specialties", "self")
  /\ UNCHANGED <<saved, wrote>>

ExtractCountry ==
  /\ Calls("extract_country")
  /\ df' = extract_country(df)
  /\ Returns("extract_country", "self")
  /\ UNCHANGED <<saved, wrote>>

FilterCountries ==
  /\ Calls("filter_countries")
  /\ df' = filter_countries(df, <<<<"B","a","n","g","l","a","d","e","s","h">>, <<"I","n","d","i","a">>>>)
  /\ Returns("filter_countries", "self")
  /\ UNCHANGED <<saved, wrote>>

RemoveDuplicates ==
  /\ Calls("remove_duplicates")
  /\ df' = remove_duplicates(df)
  /\ Returns("remove_duplicates", "self")
  /\ UNCHANGED <<saved, wrote>>

DropMissingCritical ==
  /\ Calls("drop_missing_critical")
  /\ df' = drop_missing_critical(df)
  /\ Returns("drop_missing_critical", "self")
  /\ UNCHANGED <<saved, wrote>>

ResetIndex ==
  /\ Calls("reset_index")
  /\ df' = reset_index(df)
  /\ Returns("reset_index", "self")
  /\ UNCHANGED <<saved, wrote>>

Save ==
  /\ Calls("save")
  /\ saved' = df /\ wrote' = TRUE
  /\ Returns("save", "self")
  /\ UNCHANGED df

\* show_final_stats has no return statement either
show_final_stats ==
  /\ Calls("show_final_stats")
  /\ Returns("show_final_stats", "None")
  /\ UNCHANGED <<df, saved, wrote>>

Next ==
  \/ NewCleaner
  \/ load_data
  \/ show_initial_stats
  \/ AttributeError
  \/ RemoveBmdcProfiles
  \/ RemoveRepeatedValues
  \/ CleanQualifications
  \/ CleanExperience
  \/ StandardizeSpecialties
  \/ ExtractCountry
  \/ FilterCountries
  \/ RemoveDuplicates
  \/ DropMissingCritical
  \/ ResetIndex
  \/ Save
  \/ show_final_stats

Spec == Init /\ [][Next]_vars

\* a caller that loads a file and calls one normalization method
InitCalls == Start(MethodCallers)

NextCalls ==
  \/ load_data
  \/ CleanExperience
  \/ StandardizeSpecialties
  \/ ExtractCountry

SpecCalls == InitCalls /\ [][NextCalls]_vars

(* ------------------------- the claims: terms ------------------------- *)

Last(s) == s[Len(s)]

\* method m was the last call, and it returned
CalledLast(m) == log # << >> /\ Last(log) = m /\ outcome # "raised"

IsRunFullCleaning == prog \in {"run_full_cleaning", "run_full_cleaning_nf"}

\* the callers that make the calls of run_full_cleaning in its order
IsPipeline == prog \in {"run_full_cleaning", "run_full_cleaning_nf", "stages", "stages_nf"}

IsRerun == prog \in {"rerun", "rerun_nf"}

Ended == outcome # "running"

\* the caller went through every call of the pipeline: self.df is its output
PipelineOutput == IsPipeline /\ outcome = "returned"

\* neither absent nor the "N/A" sentinel
NonMissing(c) == ~isna(c) /\ c # Str(<<"N","/","A">>)

Complete(row) ==
  NonMissing(row.hospital) /\ NonMissing(row.location) /\ NonMissing(row.specialty)

KeysUnique(rows) ==
  \A i \in DOMAIN rows, j \in DOMAIN rows :
     i # j => rows[i].profile_url # rows[j].profile_url

NoEqualFields(row) ==
  \A c \in Columns \ {"designation"}, d \in Columns \ {"designation"} :
     c # d /\ ~isna(row[c]) /\ ~isna(row[d]) => row[c] # row[d]

(* ------------------------------ C1 ----------------------------------- *)

\* C1: run_full_cleaning ends, for any input collection, with an output in which
\* every record has a hospital, a location and a specialty that are non-missing
\* (neither absent nor "N/A").
C1_OutputComplete ==
  IsRunFullCleaning /\ Ended =>
     outcome = "returned" /\ \A i \in DOMAIN df : Complete(df[i])

\* the same calls chained without show_initial_stats do end with such an output
Stages_OutputComplete ==
  PipelineOutput => \A i \in DOMAIN df : Complete(df[i])

(* ------------------------------ C2 ----------------------------------- *)

\* C2: run_full_cleaning ends, for any input collection, with an output in which
\* no two records share the same profile_url.
C2_OutputKeysUnique ==
  IsRunFullCleaning /\ Ended => outcome = "returned" /\ KeysUnique(df)

Stages_OutputKeysUnique == PipelineOutput => KeysUnique(df)

(* ------------------------------ C3 ----------------------------------- *)

\* C3: in the output of the pipeline no record has two non-missing fields, over
\* all its columns (the derived country and the cleaned qualifications and
\* specialty included, a designation column excluded), that hold identical values.
C3_OutputNoEqualFields ==
  PipelineOutput => \A i \in DOMAIN df : NoEqualFields(df[i])

(* ------------------------------ C4 ----------------------------------- *)

Normalizers ==
  {"clean_qualifications", "clean_experience", "standardize_specialties",
   "extract_country"}

Validators ==
  <<"remove_bmdc_profiles", "remove_repeated_values", "remove_duplicates",
    "drop_missing_critical">>

PassNo(m) == CHOOSE k \in DOMAIN Validators : Validators[k] = m

\* C4: in one run of the pipeline every normalization step has been applied
\* before the first validator pass starts, and the validator passes run in the
\* order BMDC filter, repeated-value filter, key deduplication, completeness
\* filter.
C4_NormalizeBeforeValidate ==
  IsPipeline =>
    /\ \A i \in DOMAIN log :
         log[i] \in Range(Validators) =>
            Normalizers \subseteq {log[j] : j \in 1..(i - 1)}
    /\ \A i \in DOMAIN log, j \in DOMAIN log :
         (i < j /\ log[i] \in Range(Validators) /\ log[j] \in Range(Validators))
            => PassNo(log[i]) < PassNo(log[j])
    /\ Ended => outcome = "returned"

(* ------------------------------ C5 ----------------------------------- *)

\* the second cleaner, made on the first one's output, is at work or has ended
SecondRun == IsRerun /\ si > 2

\* C5: the pipeline run on a collection that is itself the output of the
\* pipeline returns that collection unchanged: no row is removed and no field
\* value (experience years and country included) changes.
C5_RerunUnchanged ==
  SecondRun /\ Ended => outcome = "returned" /\ to_csv(df) = file

(* ------------------------------ C6 ----------------------------------- *)

\* C6: applying the four normalization steps twice gives the same records as
\* applying them once: no call of the second round changes the collection.
C6_NormalizeIdempotent ==
  prog = "normalize_twice" /\ Len(log) > 1 + Cardinality(Normalizers) => df = prev

(* ------------------------------ C7 ----------------------------------- *)

\* C7: every entry of the canonical specialty vocabulary is a fixed point of
\* specialty canonicalization: standardize_specialties leaves a specialty that
\* is an entry of standard_specialties as it is.
C7_VocabularyFixed ==
  CalledLast("standardize_specialties") =>
    \A i \in DOMAIN prev :
       (isstr(prev[i].specialty) /\ prev[i].specialty.s \in Range(standard_specialties))
          => df[i].specialty = prev[i].specialty

(* ------------------------------ C8 ----------------------------------- *)

\* the entries of the vocabulary whose lowercase form is a substring of the
\* lowercase form of text
Hits(vocabulary, text) ==
  {j \in DOMAIN vocabulary : contains(lower(vocabulary[j]), lower(text))}

Least(S) == CHOOSE j \in S : \A k \in S : j <= k

\* C8: standardize_specialties gives every non-missing specialty text t the
\* first entry, in list order, of standard_specialties whose lowercase form is a
\* substring of the lowercase form of t, and t itself when no entry matches; a
\* missing specialty stays missing; "Senior Consultant Cardiologist" becomes
\* "Cardiologist".
C8_FirstStandardEntry ==
  CalledLast("standardize_specialties") =>
    /\ DOMAIN df = DOMAIN prev
    /\ \A i \in DOMAIN prev :
         LET t    == prev[i].specialty
             hits == Hits(standard_specialties, t.s)
         IN  /\ ~isstr(t) => df[i].specialty = t
             /\ isstr(t) /\ hits = {} => df[i].specialty = t
             /\ isstr(t) /\ hits # {} =>
                   df[i].specialty = Str(standard_specialties[Least(hits)])
             /\ t = Str(<<"S","e","n","i","o","r"," ","C","o","n","s","u","l","t","a","n","t"," ","C","a","r","d","i","o","l","o","g","i","s","t">>) =>
                   df[i].specialty = Str(<<"C","a","r","d","i","o","l","o","g","i","s","t">>)

\* a text that holds three entries of the vocabulary came out as the one listed
\* first
C8_Witness ==
  /\ CalledLast("standardize_specialties")
  /\ \E i \in DOMAIN prev :
       /\ prev[i].specialty = Str(<<"C","o","n","s","u","l","t","a","n","t"," ","N","e","u","r","o","s","u","r","g","e","o","n"," ","&"," ","S","p","i","n","e"," ","S","u","r","g","e","o","n">>)
       /\ Cardinality(Hits(standard_specialties, prev[i].specialty.s)) > 2
       /\ df[i].specialty = Str(<<"N","e","u","r","o","s","u","r","g","e","o","n">>)

(* ------------------------------ C9 ----------------------------------- *)

\* the whole number the first maximal run of decimal digits of text spells
FirstRunValue(text) ==
  LET a == Least({i \in DOMAIN text : IsDigit(text[i])})
      b == Least({j \in a..Len(text) : j = Len(text) \/ ~IsDigit(text[j + 1])})
  IN  int_of(SubSeq(text, a, b))

HasDigit(text) == \E i \in DOMAIN text : IsDigit(text[i])

\* C9: clean_experience gives every record the whole number spelt by the first
\* maximal run of decimal digits of its experience text, and 1 when the text is
\* missing or holds no digit; it never leaves the value absent.
C9_ExperienceYears ==
  CalledLast("clean_experience") =>
    /\ DOMAIN df = DOMAIN prev
    /\ \A i \in DOMAIN prev :
         LET e == prev[i].experience IN
         df[i].experience =
            IF isna(e) THEN Num(1)
            ELSE IF isstr(e) THEN (IF HasDigit(e.s) THEN Num(FirstRunValue(e.s)) ELSE Num(1))
            ELSE Num(e.n)

(* ------------------------------ C10 ---------------------------------- *)

\* C10: extract_country sets the country of every record to the first entry, in
\* list order, of country_names that is a case-insensitive substring of the
\* location text, and leaves it absent when no entry matches or the location is
\* missing; a country the record already had is replaced by this result.
C10_FirstCountryEntry ==
  CalledLast("extract_country") =>
    /\ DOMAIN df = DOMAIN prev
    /\ \A i \in DOMAIN prev :
         LET loc  == prev[i].location
             hits == Hits(country_names, loc.s)
         IN  IF isstr(loc) /\ hits # {}
             THEN df[i].country = Str(country_names[Least(hits)])
             ELSE isna(df[i].country)

\* a record that came with a country got the one its location names, the entry
\* listed first although the text names another one before it
C10_Witness ==
  /\ CalledLast("extract_country")
  /\ \E i \in DOMAIN prev :
       /\ prev[i].country = Str(<<"N","e","p","a","l">>)
       /\ prev[i].location = Str(<<"I","n","d","i","a",","," ","B","a","n","g","l","a","d","e","s","h">>)
       /\ df[i].country = Str(<<"B","a","n","g","l","a","d","e","s","h">>)

(* ------------------------------ C11 ---------------------------------- *)

\* the callers that make the calls of run_full_cleaning(filter_countries=True)
FilterEnabled == prog \in {"run_full_cleaning", "stages"}

AllowList == {<<"B","a","n","g","l","a","d","e","s","h">>, <<"I","n","d","i","a">>}

Allowed(row) == isstr(row.country) /\ row.country.s \in AllowList

Before(i) == {log[j] : j \in 1..(i - 1)}

\* C11: with the country allow-list filter enabled every record of the pipeline
\* output has a derived country of the allow-list (a record of absent country is
\* removed), and the filter runs after every normalization step and before key
\* deduplication; with the filter disabled the filter never runs, so no record
\* is removed because of its country.
C11_CountryAllowList ==
  IsPipeline =>
    /\ FilterEnabled /\ outcome = "returned" => \A i \in DOMAIN df : Allowed(df[i])
    /\ CalledLast("filter_countries") =>
          /\ Len(df) = Cardinality({i \in DOMAIN prev : Allowed(prev[i])})
          /\ \A i \in DOMAIN df : Allowed(df[i]) /\ df[i] \in Range(prev)
    /\ \A i \in DOMAIN log :
          /\ log[i] = "filter_countries" =>
                FilterEnabled /\ Normalizers \subseteq Before(i)
                /\ "remove_duplicates" \notin Before(i)
          /\ log[i] = "remove_duplicates" =>
                (FilterEnabled <=> "filter_countries" \in Before(i))

\* the filter removed a record and kept another
C11_Witness ==
  /\ prog = "stages" /\ CalledLast("filter_countries")
  /\ Len(df) = 1 /\ Len(prev) = 2
  /\ \E i \in DOMAIN prev : prev[i].country = Str(<<"N","e","p","a","l">>)

(* ------------------------------ C12 ---------------------------------- *)

FirstOfKey(rows, i) ==
  \A j \in 1..(i - 1) : rows[j].profile_url # rows[i].profile_url

\* C12: key deduplication keeps, for every profile_url of the collection it
\* receives, exactly the record that comes first in collection order and removes
\* every later record of that profile_url; the records kept stay in their order.
C12_KeepsFirstOfKey ==
  CalledLast("remove_duplicates") =>
    /\ \A i \in DOMAIN prev :
          Cardinality({k \in DOMAIN df : df[k] = prev[i]})
             = (IF FirstOfKey(prev, i) THEN 1 ELSE 0)
    /\ \A k \in DOMAIN df : df[k] \in Range(prev)
    /\ \A k \in DOMAIN df, l \in DOMAIN df : k < l => df[k].index < df[l].index

\* two records of one key that differ: the first is the one kept
C12_Witness ==
  /\ CalledLast("remove_duplicates")
  /\ Len(prev) = 2 /\ prev[1].profile_url = prev[2].profile_url
  /\ prev[1] # prev[2]
  /\ df = <<prev[1]>>

(* ------------------------------ C13 ---------------------------------- *)

StartsWithBMDC(text) == Len(text) >= 4 /\ SubSeq(text, 1, 4) = <<"B","M","D","C">>

\* the text of the qualifications cell as the file holds it
QualificationsText(row) ==
  IF isstr(row.qualifications) THEN row.qualifications.s ELSE << >>

WithoutIndex(row) == [c \in Columns |-> row[c]]

UpperOf ==
  [c \in Range(LowerChars) |->
     UpperChars[CHOOSE i \in DOMAIN LowerChars : LowerChars[i] = c]]

\* str.upper()
upper(s) ==
  [i \in 1..Len(s) |-> IF s[i] \in DOMAIN UpperOf THEN UpperOf[s[i]] ELSE s[i]]

\* c.isupper()
isupper(c) == c \in Range(UpperChars)

\* s.endswith(suffix)
endswith(s, suffix) ==
  Len(suffix) <= Len(s) /\ occurs_at(suffix, s, Len(s) - Len(suffix) + 1)

\* the whitespace characters a line of the model can hold
Whitespace == {" ", "\t"}

\* str.strip()
strip(s) ==
  LET inked == {i \in 1..Len(s) : s[i] \notin Whitespace} IN
  IF inked = {} THEN << >>
  ELSE SubSeq(s, CHOOSE a \in inked : \A k \in inked : a <= k,
                 CHOOSE b \in inked : \A k \in inked : k <= b)

\* str.split(): the maximal runs of characters that are not whitespace
RECURSIVE split(_)
split(s) ==
  IF s = << >> THEN << >>
  ELSE IF s[1] \in Whitespace THEN split(Tail(s))
  ELSE LET stops == {i \in 1..Len(s) : s[i] \in Whitespace}
           n     == IF stops = {} THEN Len(s)
                    ELSE (CHOOSE a \in stops : \A k \in stops : a <= k) - 1
       IN  <<SubSeq(s, 1, n)>> \o split(SubSeq(s, n + 1, Len(s)))

\* sep.join(parts)
RECURSIVE join(_, _)
join(sep, parts) ==
  IF parts = << >> THEN << >>
  ELSE IF Len(parts) = 1 THEN parts[1]
  ELSE parts[1] \o sep \o join(sep, Tail(parts))

\* s.replace(old, new), old not empty: every non-overlapping occurrence, left to
\* right, the search going on after the occurrence replaced
RECURSIVE str_replace(_, _, _)
str_replace(s, old, new) ==
  LET at == {i \in 1..(Len(s) - Len(old) + 1) : occurs_at(old, s, i)} IN
  IF at = {} THEN s
  ELSE LET i == CHOOSE a \in at : \A k \in at : a <= k
       IN  SubSeq(s, 1, i - 1) \o new
           \o str_replace(SubSeq(s, i + Len(old), Len(s)), old, new)

\* any(token in line for token in tokens)
any_in(tokens, line) == \E t \in Range(tokens) : contains(t, line)

\* lines[:n]
first_lines(all_lines, n) ==
  SubSeq(all_lines, 1, IF Len(all_lines) < n THEN Len(all_lines) ELSE n)

\* the missing sentinel of the scraper
NA == <<"N","/","A">>

(* ---------------------- extract_all_qualifications ------------------- *)

qual_keywords ==
  <<<<"M","B","B","S">>, <<"B","D","S">>, <<"F","C","P","S">>, <<"M","D">>, <<"M","S">>, <<"F","R","C","S">>, <<"M","R","C","P">>, <<"M","C","P","S">>,
    <<"B","C","S">>, <<"M","P","H">>, <<"M","P","h","i","l">>, <<"P","h","D">>, <<"D","M">>, <<"M","C","h">>, <<"D","N","B">>,
    <<"F","R","C","O","G">>, <<"M","R","C","O","G">>, <<"F","A","C","S">>, <<"D","O","M","S">>, <<"D","O">>, <<"D","C","H">>, <<"D","G","O">>, <<"D","A">>,
    <<"D","i","p","l","o","m","a">>, <<"F","e","l","l","o","w","s","h","i","p">>, <<"F","A","C","C">>, <<"F","R","C","P">>, <<"F","I","C","S">>, <<"M","N","A","M","S">>>>

qual_skip ==
  <<<<"Y","e","a","r","s"," ","o","f"," ","E","x","p","e","r","i","e","n","c","e">>, <<"E","x","p","e","r","i","e","n","c","e"," ","O","v","e","r","a","l","l">>, <<"D","o","c","t","o","r"," ","R","e","g">>,
    <<"B","M","D","C">>, <<"S","p","e","c","i","a","l","i","s","t">>, <<"S","u","r","g","e","o","n">>, <<"C","o","n","s","u","l","t","a","n","t">>,
    <<"H","o","s","p","i","t","a","l">>, <<"M","e","d","i","c","a","l"," ","C","e","n","t","r","e">>, <<"C","l","i","n","i","c">>, <<"G","e","t"," ","D","i","r","e","c","t","i","o","n">>,
    <<"B","o","o","k"," ","A","p","p","o","i","n","t","m","e","n","t">>, <<"D","h","a","k","a">>, <<"B","a","n","g","l","a","d","e","s","h">>, <<"I","n","d","i","a">>>>

qual_prefixes == <<<<"Q","u","a","l","i","f","i","c","a","t","i","o","n","s",":">>, <<"D","e","g","r","e","e","s",":">>, <<"E","d","u","c","a","t","i","o","n",":">>>>

titles == <<<<"D","r",".">>, <<"P","r","o","f",".">>, <<"A","s","s","o","c",".">>, <<"A","s","s","t",".">>>>

\* as has_qual with the line compared as written
has_qual_as_written(line) == \E q \in Range(qual_keywords) : contains(q, line)

\* has_qual: any(qual.upper() in line_upper for qual in qual_keywords)
has_qual(line) ==
  LET line_upper == upper(line)
  IN  \E q \in Range(qual_keywords) : contains(upper(q), line_upper)

\* the loop over the prefixes: a prefix the text starts with is replaced
\* everywhere in it, and the text stripped again
RECURSIVE remove_prefixes(_, _)
remove_prefixes(line_clean, k) ==
  IF k > Len(qual_prefixes) THEN line_clean
  ELSE remove_prefixes(
         IF startswith(line_clean, qual_prefixes[k])
         THEN strip(str_replace(line_clean, qual_prefixes[k], << >>))
         ELSE line_clean,
         k + 1)

\* the loop over lines[:30]: found_quals after the lines from i on
RECURSIVE collect_quals(_, _, _)
collect_quals(head, i, found_quals) ==
  IF i > Len(head) THEN found_quals
  ELSE LET line       == head[i]
           line_clean == remove_prefixes(strip(line), 1)
       IN  collect_quals(head, i + 1,
             IF any_in(qual_skip, line) THEN found_quals
             ELSE IF ~has_qual(line) THEN found_quals
             ELSE IF any_in(titles, line) /\ Len(line) < 50 THEN found_quals
             ELSE IF line_clean # << >> /\ 3 < Len(line_clean) /\ Len(line_clean) < 250
                     /\ line_clean \notin Range(found_quals)
                  THEN Append(found_quals, line_clean)
                  ELSE found_quals)

\* the joined text after ' '.join(split()) and the two replacements
tidy_quals(found_quals) ==
  str_replace(str_replace(join(<<" ">>, split(join(<<","," ">>, found_quals))),
                          <<" ",",">>, <<",">>),
              <<",",",">>, <<",">>)

\* as extract_all_qualifications without the test of found_quals
extract_all_qualifications_joined(all_lines) ==
  tidy_quals(collect_quals(first_lines(all_lines, 30), 1, << >>))

extract_all_qualifications(all_lines) ==
  LET found_quals == collect_quals(first_lines(all_lines, 30), 1, << >>)
  IN  IF found_quals # << >> THEN tidy_quals(found_quals) ELSE NA

(* -------------------------- extract_specialty ------------------------ *)

keywords ==
  <<<<"R","h","e","u","m","a","t","o","l","o","g","i","s","t">>, <<"C","a","r","d","i","o","l","o","g","i","s","t">>, <<"N","e","u","r","o","l","o","g","i","s","t">>, <<"D","e","r","m","a","t","o","l","o","g","i","s","t">>,
    <<"N","e","p","h","r","o","l","o","g","i","s","t">>, <<"O","n","c","o","l","o","g","i","s","t">>, <<"E","n","d","o","c","r","i","n","o","l","o","g","i","s","t">>, <<"G","a","s","t","r","o","e","n","t","e","r","o","l","o","g","i","s","t">>,
    <<"P","u","l","m","o","n","o","l","o","g","i","s","t">>, <<"H","e","m","a","t","o","l","o","g","i","s","t">>, <<"R","a","d","i","o","l","o","g","i","s","t">>, <<"P","a","t","h","o","l","o","g","i","s","t">>,
    <<"A","n","e","s","t","h","e","s","i","o","l","o","g","i","s","t">>, <<"O","p","h","t","h","a","l","m","o","l","o","g","i","s","t">>, <<"N","e","o","n","a","t","o","l","o","g","i","s","t">>, <<"G","y","n","e","c","o","l","o","g","i","s","t">>,
    <<"U","r","o","l","o","g","i","s","t">>, <<"I","m","m","u","n","o","l","o","g","i","s","t">>, <<"P","e","d","i","a","t","r","i","c","i","a","n">>, <<"O","b","s","t","e","t","r","i","c","i","a","n">>,
    <<"P","s","y","c","h","i","a","t","r","i","s","t">>, <<"D","e","n","t","i","s","t">>, <<"E","N","T">>, <<"S","p","e","c","i","a","l","i","s","t">>, <<"M","e","d","i","c","i","n","e"," ","S","p","e","c","i","a","l","i","s","t">>,
    <<"C","h","e","s","t"," ","S","p","e","c","i","a","l","i","s","t">>, <<"R","e","s","p","i","r","a","t","o","r","y"," ","S","p","e","c","i","a","l","i","s","t">>, <<"C","r","i","t","i","c","a","l"," ","C","a","r","e"," ","M","e","d","i","c","i","n","e"," ","S","p","e","c","i","a","l","i","s","t">>,
    <<"D","i","a","b","e","t","e","s"," ","S","p","e","c","i","a","l","i","s","t">>, <<"F","a","m","i","l","y"," ","M","e","d","i","c","i","n","e"," ","S","p","e","c","i","a","l","i","s","t">>, <<"S","u","r","g","e","o","n">>,
    <<"G","e","n","e","r","a","l"," ","S","u","r","g","e","o","n">>, <<"N","e","u","r","o","s","u","r","g","e","o","n">>, <<"C","a","r","d","i","o","v","a","s","c","u","l","a","r"," ","S","u","r","g","e","o","n">>,
    <<"T","h","o","r","a","c","i","c"," ","S","u","r","g","e","o","n">>, <<"V","a","s","c","u","l","a","r"," ","S","u","r","g","e","o","n">>, <<"P","l","a","s","t","i","c"," ","S","u","r","g","e","o","n">>,
    <<"C","o","l","o","r","e","c","t","a","l"," ","S","u","r","g","e","o","n">>, <<"H","e","p","a","t","o","b","i","l","i","a","r","y"," ","S","u","r","g","e","o","n">>, <<"O","r","t","h","o","p","e","d","i","c"," ","S","u","r","g","e","o","n">>,
    <<"M","a","x","i","l","l","o","f","a","c","i","a","l"," ","S","u","r","g","e","o","n">>, <<"D","e","n","t","a","l"," ","S","u","r","g","e","o","n">>>>

specialty_skip ==
  <<<<"M","B","B","S">>, <<"F","C","P","S">>, <<"B","C","S">>, <<"M","D">>, <<"M","S">>, <<"Y","e","a","r","s">>, <<"H","o","s","p","i","t","a","l">>,
    <<"D","h","a","k","a">>, <<"B","a","n","g","l","a","d","e","s","h">>, <<"I","n","d","i","a">>, <<"B","o","o","k">>, <<"G","e","t">>, <<"F","i","n","d">>, <<"V","i","e","w">>, <<"D","o","c","t","o","r">>>>

specialty_quals == <<<<"M","B","B","S">>, <<"F","C","P","S">>, <<"M","D">>, <<"M","S">>>>

suffixes ==
  <<<<"o","l","o","g","i","s","t">>, <<"l","o","g","i","s","t">>, <<"i","s","t">>, <<"i","a","n">>, <<"i","c","i","a","n">>,
    <<"S","p","e","c","i","a","l","i","s","t">>, <<"S","u","r","g","e","o","n">>, <<"C","o","n","s","u","l","t","a","n","t">>>>

suffix_skip == <<<<"M","B","B","S">>, <<"F","C","P","S">>, <<"Y","e","a","r","s">>, <<"H","o","s","p","i","t","a","l">>>>

\* as keyword_returns with the keyword compared as written
keyword_returns_as_written(line, k) ==
  \/ keywords[k] = line
  \/ /\ contains(keywords[k], line) /\ Len(line) < 100
     /\ ~any_in(specialty_quals, line)

\* the body of the loop over keywords, for keywords[k]: does it return the line
keyword_returns(line, k) ==
  LET line_lower == lower(line) IN
  IF lower(keywords[k]) = line_lower THEN TRUE
  ELSE IF contains(lower(keywords[k]), line_lower) /\ Len(line) < 100
       THEN ~any_in(specialty_quals, line)
       ELSE FALSE

\* Method 1, the loop over lines[:15] from line i on: the line returned, or
\* << >> when the loop ends
RECURSIVE method_1(_, _)
method_1(head, i) ==
  IF i > Len(head) THEN << >>
  ELSE IF any_in(specialty_skip, head[i]) THEN method_1(head, i + 1)
  ELSE IF \E k \in DOMAIN keywords : keyword_returns(head[i], k) THEN head[i]
  ELSE method_1(head, i + 1)

\* Method 2, the loop over lines[:20] from line i on
RECURSIVE method_2(_, _)
method_2(head, i) ==
  IF i > Len(head) THEN << >>
  ELSE LET line == head[i] IN
       IF /\ 5 < Len(line) /\ Len(line) < 40 /\ isupper(line[1])
          /\ \E s \in Range(suffixes) : endswith(line, s)
          /\ ~any_in(suffix_skip, line)
       THEN line
       ELSE method_2(head, i + 1)

extract_specialty(all_lines) ==
  LET by_keyword == method_1(first_lines(all_lines, 15), 1) IN
  IF by_keyword # << >> THEN by_keyword
  ELSE LET by_suffix == method_2(first_lines(all_lines, 20), 1) IN
       IF by_suffix # << >> THEN by_suffix ELSE NA

(* ------------------------- extract_experience ------------------------ *)

experience_phrases ==
  <<<<"Y","e","a","r","s"," ","o","f"," ","E","x","p","e","r","i","e","n","c","e">>, <<"E","x","p","e","r","i","e","n","c","e"," ","O","v","e","r","a","l","l">>, <<"Y","e","a","r"," ","o","f"," ","E","x","p","e","r","i","e","n","c","e">>>>

RECURSIVE first_experience(_, _)
first_experience(head, i) ==
  IF i > Len(head) THEN NA
  ELSE IF any_in(experience_phrases, head[i]) THEN head[i]
  ELSE first_experience(head, i + 1)

extract_experience(all_lines) == first_experience(first_lines(all_lines, 30), 1)

(* ---------------------- extract_hospital_location -------------------- *)

hospital_keywords ==
  <<<<"H","o","s","p","i","t","a","l">>, <<"M","e","d","i","c","a","l"," ","C","e","n","t","r","e">>, <<"M","e","d","i","c","a","l"," ","C","e","n","t","e","r">>,
    <<"C","l","i","n","i","c">>, <<"H","e","a","l","t","h","c","a","r","e">>, <<"M","e","d","i","c","a","l"," ","C","o","l","l","e","g","e">>>>

hospital_excluded ==
  <<<<"F","i","n","d"," ","H","o","s","p","i","t","a","l">>, <<"G","e","t"," ","D","i","r","e","c","t","i","o","n">>, <<"B","o","o","k"," ","A","p","p","o","i","n","t","m","e","n","t">>, <<"A","v","a","i","l","a","b","i","l","i","t","y">>,
    <<"W","o","r","k"," ","E","x","p","e","r","i","e","n","c","e">>, <<"E","d","u","c","a","t","i","o","n">>, <<"L","o","c","a","t","i","o","n","s">>, <<"V","i","e","w"," ","a","l","l">>, <<"I","n","f","o">>>>

hospital_starts == <<<<"B","o","o","k">>, <<"V","i","e","w">>, <<"F","i","n","d">>, <<"G","e","t">>>>

location_excluded ==
  <<<<"G","e","t"," ","D","i","r","e","c","t","i","o","n">>, <<"B","o","o","k"," ","A","p","p","o","i","n","t","m","e","n","t">>, <<"A","v","a","i","l","a","b","i","l","i","t","y">>, <<"F","i","n","d"," ","H","o","s","p","i","t","a","l">>,
    <<"I","n","f","o">>>>

location_signals ==
  <<<<",">>, <<"R","o","a","d">>, <<"R","d">>, <<"D","h","a","k","a">>, <<"B","a","n","g","l","a","d","e","s","h">>, <<"I","n","d","i","a">>,
    <<"N","o",".">>, <<"S","t","r","e","e","t">>, <<"A","v","e","n","u","e">>, <<"C","h","i","t","t","a","g","o","n","g">>, <<"S","y","l","h","e","t">>,
    <<"R","a","j","s","h","a","h","i">>, <<"K","h","u","l","n","a">>, <<"B","a","r","i","s","a","l">>, <<"M","u","m","b","a","i">>, <<"D","e","l","h","i">>,
    <<"B","a","n","g","a","l","o","r","e">>, <<"K","o","l","k","a","t","a">>, <<"C","h","e","n","n","a","i">>, <<"H","y","d","e","r","a","b","a","d">>,
    <<"C","i","t","y">>, <<"B","u","i","l","d","i","n","g">>, <<"C","i","r","c","u","l","a","r">>>>

\* as is_hospital without the test of the first word
is_hospital_any_start(line, hospitals) ==
  /\ any_in(hospital_keywords, line)
  /\ Len(line) < 200 /\ ~any_in(hospital_excluded, line)
  /\ line \notin Range(hospitals) /\ Len(line) > 5

\* the three nested tests of the loop over the lines: the line is appended to
\* hospitals
is_hospital(line, hospitals) ==
  /\ any_in(hospital_keywords, line)
  /\ Len(line) < 200 /\ ~any_in(hospital_excluded, line)
  /\ line \notin Range(hospitals) /\ Len(line) > 5
  /\ ~\E verb \in Range(hospital_starts) : startswith(line, verb)

\* the test of next_line in the loop over range(i+1, min(i+5, len(lines)))
is_location(next_line) ==
  /\ Len(next_line) > 15
  /\ ~any_in(location_excluded, next_line)
  /\ any_in(location_signals, next_line)

\* the loop over j, from j on, for the hospital at 0-based i: locations after it
RECURSIVE look_ahead(_, _, _, _)
look_ahead(all_lines, i, j, locations) ==
  LET stop == IF i + 5 < Len(all_lines) THEN i + 5 ELSE Len(all_lines) IN
  IF j >= stop THEN locations
  ELSE LET next_line == all_lines[j + 1] IN
       IF is_location(next_line)
       THEN (IF next_line \notin Range(locations)
             THEN Append(locations, next_line) ELSE locations)
       ELSE look_ahead(all_lines, i, j + 1, locations)

\* the loop over enumerate(lines), from 0-based i on: <<hospitals, locations>>
RECURSIVE scan_hospitals(_, _, _, _)
scan_hospitals(all_lines, i, hospitals, locations) ==
  IF i >= Len(all_lines) THEN <<hospitals, locations>>
  ELSE IF is_hospital(all_lines[i + 1], hospitals)
       THEN <<Append(hospitals, all_lines[i + 1]),
              look_ahead(all_lines, i, i + 1, locations)>>
       ELSE scan_hospitals(all_lines, i + 1, hospitals, locations)

\* the tuple (hospital, location)
extract_hospital_location(all_lines) ==
  LET found     == scan_hospitals(all_lines, 0, << >>, << >>)
      hospitals == found[1]
      locations == found[2]
  IN  <<IF hospitals # << >> THEN hospitals[1] ELSE NA,
        IF locations # << >> THEN locations[1] ELSE NA>>

(* ------------------------------- name -------------------------------- *)

name_skip == <<<<"M","B","B","S">>, <<"F","C","P","S">>, <<"E","x","p","e","r","i","e","n","c","e">>, <<"S","p","e","c","i","a","l","i","s","t">>>>

\* the loop of the except branch over lines[:10], from line i on
RECURSIVE name_from_lines(_, _)
name_from_lines(head, i) ==
  IF i > Len(head) THEN NA
  ELSE IF any_in(titles, head[i]) /\ Len(head[i]) < 100 /\ ~any_in(name_skip, head[i])
       THEN head[i]
       ELSE name_from_lines(head, i + 1)

\* the heading elements of a page: none (find_element raises
\* NoSuchElementException) or one with a text
NoElement == [found |-> FALSE, text |-> << >>]
Element(text) == [found |-> TRUE, text |-> text]

\* "Extract NAME": the try block and its except branch
extract_name(elem, all_lines) ==
  IF elem.found
  THEN LET name_text == strip(elem.text) IN
       IF name_text # << >> /\ Len(name_text) < 100 THEN name_text ELSE NA
  ELSE name_from_lines(first_lines(all_lines, 10), 1)

\* lines = [line.strip() for line in page_text.split('\n') if line.strip()]
RECURSIVE stripped_lines(_)
stripped_lines(text_lines) ==
  IF text_lines = << >> THEN << >>
  ELSE (IF strip(text_lines[1]) # << >> THEN <<strip(text_lines[1])>> ELSE << >>)
       \o stripped_lines(Tail(text_lines))

(* --------------------------- profile pages --------------------------- *)

MaxBody == 2

\* a line no extractor reacts to, n times over
Filler(n) == [i \in 1..n |-> <<"H","o","m","e">>]

\* text made n characters long with a run of "x" at its end
Long(text, n) == text \o [i \in 1..(n - Len(text)) |-> "x"]

\* text made n characters long with a run of "x" in front of it
LongBefore(n, text) == [i \in 1..(n - Len(text)) |-> "x"] \o text

RECURSIVE BodiesUpTo(_, _)
BodiesUpTo(pool, n) ==
  IF n = 0 THEN {<< >>}
  ELSE LET shorter == BodiesUpTo(pool, n - 1) IN
       shorter \cup {Append(b, l) : b \in {c \in shorter : Len(c) = n - 1}, l \in pool}

\* each line of the pool alone and after n filler lines, n in offsets, and the
\* bodies of up to MaxBody of the lines of core
Pages(pool, core, offsets) ==
  {Filler(n) \o <<l>> : n \in offsets \cup {0}, l \in pool}
  \cup BodiesUpTo(core, MaxBody)

QualificationLines ==
  {<<"M","B","B","S",","," ","F","C","P","S"," ","(","M","e","d","i","c","i","n","e",")">>,
   <<"Q","u","a","l","i","f","i","c","a","t","i","o","n","s",":"," ","M","B","B","S",","," ","M","D">>,
   <<"M","B","B","S",","," ","M","D">>,
   <<"D","e","g","r","e","e","s",":"," ","M","D">>,
   <<"D","e","g","r","e","e","s",":"," ","M","B","B","S"," ","D","e","g","r","e","e","s",":"," ","B","D","S">>,
   <<"E","d","u","c","a","t","i","o","n",":"," ","D","e","g","r","e","e","s",":"," ","F","C","P","S"," ","(","S","u","r","g","e","r","y",")">>,
   <<"D","r","."," ","A",","," ","M","B","B","S">>,
   <<"P","r","o","f","."," ","D","r","."," ","A","b","u","l"," ","K","a","l","a","m"," ","A","z","a","d"," ","C","h","o","w","d","h","u","r","y",","," ","M","B","B","S",","," ","F","C","P","S",","," ","F","R","C","S">>,
   <<"M","B","B","S",","," ","C","h","i","l","d"," ","S","p","e","c","i","a","l","i","s","t">>,
   <<"m","b","b","s",","," ","f","c","p","s">>,
   <<"B","D","S">>,
   <<"M","B","B","S">>,
   <<"M","B","B","S",","," "," ","F","C","P","S">>,
   <<"M","B","B","S"," ",","," ","F","C","P","S">>,
   <<"M","B","B","S",",",",","F","C","P","S">>,
   <<"M","B","B","S",",",",",",","F","C","P","S">>,
   <<"A","d","m","i","n"," ","P","a","n","e","l">>,
   <<"H","o","m","e">>,
   <<" "," ","M","B","B","S",","," ","D","C","H"," ">>,
   <<" "," "," ">>,
   Long(<<"M","B","B","S",","," ">>, 249),
   Long(<<"M","B","B","S",","," ">>, 250)}

QualificationCore ==
  {<<"M","B","B","S",","," ","F","C","P","S"," ","(","M","e","d","i","c","i","n","e",")">>, <<"Q","u","a","l","i","f","i","c","a","t","i","o","n","s",":"," ","M","B","B","S",","," ","M","D">>, <<"M","B","B","S",","," ","M","D">>,
   <<"D","r","."," ","A",","," ","M","B","B","S">>, <<"M","B","B","S"," ",","," ","F","C","P","S">>, <<"B","D","S">>, <<"H","o","m","e">>}

SpecialtyLines ==
  {<<"C","a","r","d","i","o","l","o","g","i","s","t">>,
   <<"c","a","r","d","i","o","l","o","g","i","s","t">>,
   <<"S","e","n","i","o","r"," ","C","o","n","s","u","l","t","a","n","t"," ","C","a","r","d","i","o","l","o","g","i","s","t">>,
   <<"M","B","B","S",","," ","C","a","r","d","i","o","l","o","g","i","s","t">>,
   <<"V","i","e","w"," ","S","p","e","c","i","a","l","i","s","t">>,
   <<"M","D"," ","C","o","n","s","u","l","t","a","n","t">>,
   <<"P","h","y","s","i","c","i","a","n">>,
   <<"p","h","y","s","i","c","i","a","n">>,
   <<"H","o","m","e","o","p","a","t","h">>,
   <<"A","r","t","i","s","t">>,
   <<"D","e","i","s","t">>,
   <<"D","e","p","a","r","t","m","e","n","t">>,
   <<"T","h","o","r","a","c","i","c"," ","S","u","r","g","e","o","n">>,
   Long(<<"C","a","r","d","i","o","l","o","g","i","s","t"," ">>, 99),
   Long(<<"C","a","r","d","i","o","l","o","g","i","s","t"," ">>, 100),
   LongBefore(39, <<"X","x"," ","t","h","e","r","a","p","i","s","t">>),
   LongBefore(40, <<"X","x"," ","t","h","e","r","a","p","i","s","t">>)}

SpecialtyCore ==
  {<<"C","a","r","d","i","o","l","o","g","i","s","t">>, <<"S","e","n","i","o","r"," ","C","o","n","s","u","l","t","a","n","t"," ","C","a","r","d","i","o","l","o","g","i","s","t">>, <<"M","B","B","S",","," ","C","a","r","d","i","o","l","o","g","i","s","t">>,
   <<"V","i","e","w"," ","S","p","e","c","i","a","l","i","s","t">>, <<"P","h","y","s","i","c","i","a","n">>, <<"H","o","m","e","o","p","a","t","h">>}

HospitalLines ==
  {<<"S","q","u","a","r","e"," ","H","o","s","p","i","t","a","l"," ","L","t","d">>,
   <<"A","p","o","l","l","o"," ","C","l","i","n","i","c">>,
   <<"C","l","i","n","i","c">>,
   <<"B","o","o","k"," ","L","a","b","a","i","d"," ","H","o","s","p","i","t","a","l">>,
   <<"F","i","n","d"," ","H","o","s","p","i","t","a","l"," ","n","e","a","r"," ","y","o","u">>,
   <<"H","o","s","p","i","t","a","l"," ","I","n","f","o">>,
   <<"E","d","u","c","a","t","i","o","n"," ","a","t"," ","D","h","a","k","a"," ","M","e","d","i","c","a","l"," ","C","o","l","l","e","g","e">>,
   <<"L","a","b","a","i","d"," ","H","o","s","p","i","t","a","l",","," ","D","h","a","n","m","o","n","d","i",","," ","D","h","a","k","a">>,
   Long(<<"E","v","e","r","c","a","r","e"," ","H","o","s","p","i","t","a","l"," ">>, 199),
   Long(<<"E","v","e","r","c","a","r","e"," ","H","o","s","p","i","t","a","l"," ">>, 200),
   <<"1","2","3"," ","P","a","n","t","h","a","p","a","t","h"," ","R","o","a","d",","," ","D","h","a","k","a">>,
   <<"G","e","t"," ","D","i","r","e","c","t","i","o","n">>,
   <<"G","e","t"," ","D","i","r","e","c","t","i","o","n"," ","t","o"," ","1","2"," ","L","a","k","e"," ","R","o","a","d">>,
   <<"V","i","e","w"," ","a","l","l"," ","L","o","c","a","t","i","o","n","s",","," ","D","h","a","k","a">>,
   <<"A","v","a","i","l","a","b","i","l","i","t","y",":"," ","M","o","n","-","F","r","i",","," ","5","p","m">>,
   <<"M","i","r","p","u","r"," ","1","0",","," ","D","h","a","k","a">>,
   <<"M","i","r","p","u","r"," ","1",","," ","D","h","a","k","a">>,
   <<"S","e","c","o","n","d"," ","f","l","o","o","r",","," ","e","a","s","t">>,
   <<"O","p","p","o","s","i","t","e"," ","t","h","e"," ","t","o","w","n"," ","h","a","l","l">>}

HospitalCore ==
  {<<"S","q","u","a","r","e"," ","H","o","s","p","i","t","a","l"," ","L","t","d">>, <<"A","p","o","l","l","o"," ","C","l","i","n","i","c">>, <<"B","o","o","k"," ","L","a","b","a","i","d"," ","H","o","s","p","i","t","a","l">>,
   <<"L","a","b","a","i","d"," ","H","o","s","p","i","t","a","l",","," ","D","h","a","n","m","o","n","d","i",","," ","D","h","a","k","a">>, <<"1","2","3"," ","P","a","n","t","h","a","p","a","t","h"," ","R","o","a","d",","," ","D","h","a","k","a">>,
   <<"G","e","t"," ","D","i","r","e","c","t","i","o","n">>, <<"V","i","e","w"," ","a","l","l"," ","L","o","c","a","t","i","o","n","s",","," ","D","h","a","k","a">>, <<"M","i","r","p","u","r"," ","1",","," ","D","h","a","k","a">>}

\* the hospital line, n lines in between, the location line: n = 3 is the last
\* line of the window, n = 4 the first one after it
WindowPages ==
  {<<h>> \o Filler(n) \o <<l>> :
     h \in {<<"S","q","u","a","r","e"," ","H","o","s","p","i","t","a","l"," ","L","t","d">>}, n \in 0..4,
     l \in {<<"1","2","3"," ","P","a","n","t","h","a","p","a","t","h"," ","R","o","a","d",","," ","D","h","a","k","a">>, <<"V","i","e","w"," ","a","l","l"," ","L","o","c","a","t","i","o","n","s",","," ","D","h","a","k","a">>}}
  \cup {<<<<"S","q","u","a","r","e"," ","H","o","s","p","i","t","a","l"," ","L","t","d">>, <<"G","e","t"," ","D","i","r","e","c","t","i","o","n">>, <<"1","2","3"," ","P","a","n","t","h","a","p","a","t","h"," ","R","o","a","d",","," ","D","h","a","k","a">>>>,
        <<<<"H","o","m","e">>, <<"S","q","u","a","r","e"," ","H","o","s","p","i","t","a","l"," ","L","t","d">>, <<"G","e","t"," ","D","i","r","e","c","t","i","o","n">>, <<"M","i","r","p","u","r"," ","1",","," ","D","h","a","k","a">>,
          <<"M","i","r","p","u","r"," ","1","0",","," ","D","h","a","k","a">>, <<"1","2","3"," ","P","a","n","t","h","a","p","a","t","h"," ","R","o","a","d",","," ","D","h","a","k","a">>, <<"A","p","o","l","l","o"," ","C","l","i","n","i","c">>>>}

NameLines ==
  {<<"D","r","."," ","A"," ","B">>,
   <<"P","r","o","f","."," ","D","r","."," ","C",","," ","M","B","B","S">>,
   <<"A","s","s","t","."," ","P","r","o","f","."," ","D">>,
   <<"D","r","."," ","E",","," ","H","e","a","r","t"," ","S","p","e","c","i","a","l","i","s","t">>,
   <<"A","s","s","o","c","."," ","P","r","o","f","."," ","F",","," ","1","2"," ","Y","e","a","r","s"," ","o","f"," ","E","x","p","e","r","i","e","n","c","e">>,
   <<"H","o","m","e">>,
   <<"M","r","."," ","G">>,
   Long(<<"D","r","."," ">>, 99),
   Long(<<"D","r","."," ">>, 100)}

NameCore == {<<"D","r","."," ","A"," ","B">>, <<"P","r","o","f","."," ","D","r","."," ","C",","," ","M","B","B","S">>, <<"A","s","s","t","."," ","P","r","o","f","."," ","D">>, <<"H","o","m","e">>}

Headings ==
  {NoElement, Element(<< >>), Element(<<" "," ">>), Element(<<"D","r","."," ","H">>), Element(<<" ","D","r","."," ","H"," ">>),
   Element(Long(<<"D","r","."," ">>, 99)), Element(Long(<<"D","r","."," ">>, 100))}

Profiles ==
  {[text |-> t, elem |-> NoElement] :
     t \in Pages(QualificationLines, QualificationCore, {29, 30})
           \cup Pages(SpecialtyLines, SpecialtyCore, {14, 15, 19, 20})
           \cup Pages(HospitalLines, HospitalCore, {30})
           \cup WindowPages}
  \cup {[text |-> t, elem |-> e] :
          t \in Pages(NameLines, NameCore, {9, 10}), e \in Headings}

(* -------------------------- scrape_profile --------------------------- *)

InitScrape ==
  /\ \E p \in Profiles : page_text = p.text /\ name_elem = p.elem
  /\ lines = << >> /\ details = << >>
  /\ pc = "get"
  /\ file = << >> /\ prog = "scrape_profile"
  /\ si = 1 /\ ci = 1 /\ recv = "self" /\ outcome = "running"
  /\ df = << >> /\ prev = << >> /\ log = << >>
  /\ saved = << >> /\ wrote = FALSE
  /\ NoRun
  /\ NoFix

\* driver.get(profile_url), the details of no field, and the lines of the body
GetProfile ==
  /\ pc = "get"
  /\ details' = [profile_url |-> <<"u","1">>, name |-> NA, qualifications |-> NA,
                 specialty |-> NA, experience |-> NA, hospital |-> NA,
                 location |-> NA]
  /\ lines' = stripped_lines(page_text)
  /\ pc' = "name"
  /\ UNCHANGED <<page_text, name_elem>>
  /\ UNCHANGED cleaner_vars
  /\ UNCHANGED <<run_vars, fixer_vars>>

\* "Extract NAME"
ExtractName ==
  /\ pc = "name"
  /\ details' = [details EXCEPT !.name = extract_name(name_elem, lines)]
  /\ pc' = "fields"
  /\ UNCHANGED <<page_text, name_elem, lines>>
  /\ UNCHANGED cleaner_vars
  /\ UNCHANGED <<run_vars, fixer_vars>>

\* "Extract all other fields" and return details
ExtractFields ==
  /\ pc = "fields"
  /\ details' = [details EXCEPT
                   !.qualifications = extract_all_qualifications(lines),
                   !.specialty      = extract_specialty(lines),
                   !.experience     = extract_experience(lines),
                   !.hospital       = extract_hospital_location(lines)[1],
                   !.location       = extract_hospital_location(lines)[2]]
  /\ pc' = "return"
  /\ UNCHANGED <<page_text, name_elem, lines>>
  /\ UNCHANGED cleaner_vars
  /\ UNCHANGED <<run_vars, fixer_vars>>

NextScrape == GetProfile \/ ExtractName \/ ExtractFields

SpecScrape == InitScrape /\ [][NextScrape]_vars

(* ------------------- the claims on scrape_profile -------------------- *)

\* scrape_profile has filled every field of details
Returned == pc = "return"

Fields ==
  {"name", "qualifications", "specialty", "experience", "hospital", "location"}

\* a non-empty string with no whitespace at either end
Trimmed(text) ==
  text # << >> /\ text[1] \notin Whitespace /\ text[Len(text)] \notin Whitespace

\* the first n lines of the page, by number
Window(n) == {i \in DOMAIN lines : i <= n}

Has(tokens, line) == \E t \in tokens : contains(t, line)

HasAnyCase(tokens, line) == \E t \in tokens : contains(lower(t), lower(line))

(* ------------------------------ C14 ---------------------------------- *)

\* C14: on every sequence of non-empty trimmed lines the extraction of the
\* qualifications, the specialty, the experience, the hospital and location and
\* the name ends without raising, and every field it returns is the missing
\* sentinel "N/A" or a non-empty string with no whitespace at either end.
C14_FieldsTrimmed ==
  /\ \A i \in DOMAIN lines : Trimmed(lines[i])
  /\ pc \in {"fields", "return"} =>
        \A f \in Fields : details[f] = NA \/ Trimmed(details[f])

\* a page with blank lines and lines in whitespace, and qualifications found
C14_Witness ==
  /\ Returned
  /\ \E i \in DOMAIN page_text : page_text[i] # << >> /\ ~Trimmed(page_text[i])
  /\ details.qualifications # NA
  /\ details.specialty = NA

(* ------------------------------ C15 ---------------------------------- *)

InstitutionMarkers ==
  {<<"H","o","s","p","i","t","a","l">>, <<"C","l","i","n","i","c">>, <<"M","e","d","i","c","a","l"," ","C","e","n","t","r","e">>, <<"M","e","d","i","c","a","l"," ","C","e","n","t","e","r">>, <<"H","e","a","l","t","h","c","a","r","e">>,
   <<"M","e","d","i","c","a","l"," ","C","o","l","l","e","g","e">>}

NavigationPhrases ==
  {<<"F","i","n","d"," ","H","o","s","p","i","t","a","l">>, <<"G","e","t"," ","D","i","r","e","c","t","i","o","n">>, <<"B","o","o","k"," ","A","p","p","o","i","n","t","m","e","n","t">>, <<"A","v","a","i","l","a","b","i","l","i","t","y">>,
   <<"W","o","r","k"," ","E","x","p","e","r","i","e","n","c","e">>, <<"E","d","u","c","a","t","i","o","n">>, <<"L","o","c","a","t","i","o","n","s">>, <<"V","i","e","w"," ","a","l","l">>, <<"I","n","f","o">>}

ActionVerbs == {<<"B","o","o","k">>, <<"V","i","e","w">>, <<"F","i","n","d">>, <<"G","e","t">>}

HospitalCandidate(line) ==
  /\ Has(InstitutionMarkers, line)
  /\ Len(line) < 200
  /\ ~Has(NavigationPhrases, line)
  /\ \A v \in ActionVerbs : ~startswith(line, v)

HospitalCandidates == {i \in DOMAIN lines : HospitalCandidate(lines[i])}

\* C15: the hospital is the first line, in document order over the whole
\* sequence, that holds an institution marker, is shorter than 200 characters,
\* holds no navigation exclusion phrase and does not start with "Book", "View",
\* "Find" or "Get"; no later line is returned, and the hospital is missing
\* exactly when no line is such a line.
C15_FirstHospital ==
  Returned =>
    IF HospitalCandidates = {} THEN details.hospital = NA
    ELSE details.hospital = lines[Least(HospitalCandidates)]
         /\ details.hospital # NA

\* two candidate lines, the first of them not the first line of the page
C15_Witness ==
  /\ Returned
  /\ Cardinality(HospitalCandidates) >= 2
  /\ Least(HospitalCandidates) > 1
  /\ details.hospital = lines[Least(HospitalCandidates)]
  /\ \E j \in HospitalCandidates : lines[j] # details.hospital

(* ------------------------------ C16 ---------------------------------- *)

LocaleSignals == Range(location_signals)

LocationCandidate(line) ==
  /\ Len(line) > 15
  /\ ~Has(NavigationPhrases, line)
  /\ Has(LocaleSignals, line)

\* the lines i+1 .. i+4 after line i that are location candidates
LocationsAfter(i) ==
  {j \in DOMAIN lines : i < j /\ j <= i + 4 /\ LocationCandidate(lines[j])}

\* C16: with the hospital accepted at line i the location is the first line
\* among the four lines after it (fewer at the end of the sequence) that is
\* longer than 15 characters, holds no navigation exclusion phrase and holds a
\* locale signal; the other lines of the window are skipped; the location is
\* missing when the window has no such line, and when the hospital is missing.
C16_LocationInWindow ==
  Returned =>
    IF HospitalCandidates = {} THEN details.location = NA
    ELSE LET after == LocationsAfter(Least(HospitalCandidates)) IN
         details.location = IF after = {} THEN NA ELSE lines[Least(after)]

(* ------------------------------ C17 ---------------------------------- *)

CredentialTokens == Range(qual_keywords)

ExclusionTokens == Range(qual_skip)

Honorifics == {<<"D","r",".">>, <<"P","r","o","f",".">>, <<"A","s","s","o","c",".">>, <<"A","s","s","t",".">>}

Labels == {<<"Q","u","a","l","i","f","i","c","a","t","i","o","n","s",":">>, <<"D","e","g","r","e","e","s",":">>, <<"E","d","u","c","a","t","i","o","n",":">>}

\* the line is a qualifications line whose text, the label removed, is text
Qualifies(line, text) ==
  /\ HasAnyCase(CredentialTokens, line)
  /\ ~Has(ExclusionTokens, line)
  /\ ~(Has(Honorifics, line) /\ Len(line) < 50)
  /\ 3 < Len(text) /\ Len(text) < 250

\* the indices of S in increasing order
RECURSIVE InOrder(_)
InOrder(S) == IF S = {} THEN << >> ELSE <<Least(S)>> \o InOrder(S \ {Least(S)})

\* the line without the label it starts with
LeadingLabelRemoved(line) ==
  IF \E p \in Labels : startswith(line, p)
  THEN LET p == CHOOSE q \in Labels : startswith(line, q)
       IN  strip(SubSeq(line, Len(p) + 1, Len(line)))
  ELSE line

LabelRemoved(text, label) ==
  IF startswith(text, label) THEN strip(str_replace(text, label, << >>)) ELSE text

\* the labels tried in the order Qualifications:, Degrees:, Education:
LabelsRemoved(line) ==
  LabelRemoved(LabelRemoved(LabelRemoved(line, <<"Q","u","a","l","i","f","i","c","a","t","i","o","n","s",":">>), <<"D","e","g","r","e","e","s",":">>),
               <<"E","d","u","c","a","t","i","o","n",":">>)

\* every run of whitespace made one space, then " ," made "," and ",," made ","
Tidied(text) ==
  str_replace(str_replace(join(<<" ">>, split(text)), <<" ",",">>, <<",">>), <<",",",">>, <<",">>)

QualifyingLines == {i \in Window(30) : Qualifies(lines[i], LabelsRemoved(lines[i]))}

FirstOfText ==
  {i \in QualifyingLines : \A j \in QualifyingLines :
      j < i => LabelsRemoved(lines[j]) # LabelsRemoved(lines[i])}

QualifyingTexts ==
  [k \in 1..Cardinality(FirstOfText) |-> LabelsRemoved(lines[InOrder(FirstOfText)[k]])]

SpecialtyKeywords == Range(keywords)

NoiseTokens ==
  {<<"M","B","B","S">>, <<"F","C","P","S">>, <<"B","C","S">>, <<"M","D">>, <<"M","S">>, <<"Y","e","a","r","s">>, <<"H","o","s","p","i","t","a","l">>, <<"D","h","a","k","a">>,
   <<"B","a","n","g","l","a","d","e","s","h">>, <<"I","n","d","i","a">>, <<"B","o","o","k">>, <<"G","e","t">>, <<"F","i","n","d">>, <<"V","i","e","w">>, <<"D","o","c","t","o","r">>}

SpecialtyCredentials == {<<"M","B","B","S">>, <<"F","C","P","S">>, <<"M","D">>, <<"M","S">>}

\* a line pass 1 returns
KeywordLine(line) ==
  /\ ~Has(NoiseTokens, line)
  /\ \/ \E k \in SpecialtyKeywords : lower(k) = lower(line)
     \/ /\ HasAnyCase(SpecialtyKeywords, line)
        /\ Len(line) < 100
        /\ ~Has(SpecialtyCredentials, line)

KeywordLines == {i \in Window(15) : KeywordLine(lines[i])}

\* C18: specialty pass 1 returns the first line, in document order among the
\* first 15 lines, that holds no noise token and either is a specialty keyword
\* in some letter case or holds one in some letter case while it is shorter
\* than 100 characters and free of credential tokens; the whole line is
\* returned, and no line after the first such line.
C18_FirstKeywordLine ==
  Returned /\ KeywordLines # {} => details.specialty = lines[Least(KeywordLines)]

\* a line of another letter case than its keyword is returned whole, a line
\* before it being skipped for its noise token or taken by no keyword
C18_Witness ==
  /\ Returned
  /\ KeywordLines # {} /\ Least(KeywordLines) > 1
  /\ details.specialty = lines[Least(KeywordLines)]
  /\ details.specialty \notin SpecialtyKeywords
  /\ \E i \in Window(15) : i < Least(KeywordLines) /\ Has(NoiseTokens, lines[i])
                           /\ HasAnyCase(SpecialtyKeywords, lines[i])

(* ------------------------------ C19 ---------------------------------- *)

ProfessionSuffixes ==
  {<<"o","l","o","g","i","s","t">>, <<"l","o","g","i","s","t">>, <<"i","s","t">>, <<"i","a","n">>, <<"i","c","i","a","n">>, <<"S","p","e","c","i","a","l","i","s","t">>, <<"S","u","r","g","e","o","n">>,
   <<"C","o","n","s","u","l","t","a","n","t">>}

\* a line pass 2 accepts
SuffixLine(line) ==
  /\ 6 <= Len(line) /\ Len(line) <= 39
  /\ isupper(line[1])
  /\ \E s \in ProfessionSuffixes : endswith(line, s)
  /\ ~Has(NoiseTokens, line)

SuffixLines == {i \in Window(20) : SuffixLine(lines[i])}

\* C19: pass 2 gives the specialty only when pass 1 found nothing; it gives the
\* first of the first 20 lines of length 6 to 39 that starts with an uppercase
\* letter, ends in a profession suffix and is free of the noise tokens on which
\* pass 1 skips a line; the specialty is missing when neither pass has a line.
C19_SuffixPass ==
  Returned =>
    IF KeywordLines # {} THEN details.specialty = lines[Least(KeywordLines)]
    ELSE IF SuffixLines # {} THEN details.specialty = lines[Least(SuffixLines)]
    ELSE details.specialty = NA

(* ------------------------------ C20 ---------------------------------- *)

NameNoise == {<<"M","B","B","S">>, <<"F","C","P","S">>, <<"E","x","p","e","r","i","e","n","c","e">>, <<"S","p","e","c","i","a","l","i","s","t">>}

NameLine(line) ==
  Has(Honorifics, line) /\ ~Has(NameNoise, line) /\ Len(line) < 100

NameLinesOfPage == {i \in Window(10) : NameLine(lines[i])}

HeadingText == strip(name_elem.text)

\* C20: the name is the heading text when a heading is supplied whose trimmed
\* text has 1 to 99 characters; in every other case (no heading, an empty one,
\* one of 100 characters or more) it is the first of the first 10 lines that
\* holds an honorific, holds no noise token and is shorter than 100 characters,
\* or missing when there is no such line.
C20_NameOrFallback ==
  pc \in {"fields", "return"} =>
    IF name_elem.found /\ 1 <= Len(HeadingText) /\ Len(HeadingText) <= 99
    THEN details.name = HeadingText
    ELSE details.name = IF NameLinesOfPage = {} THEN NA
                        ELSE lines[Least(NameLinesOfPage)]

(* ------------------------------ C21 ---------------------------------- *)

\* the line has no profile_url: read_csv parses the field as missing
MissingKey(line) == parse_cell(line.profile_url) = NaN

\* C21: a collection in which some record has a missing profile_url is rejected
\* with an error at load time: load_data raises on it, so such a record is
\* neither removed by a later call nor kept in the output.
C21_MissingKeyRejected ==
  (\E i \in DOMAIN file : MissingKey(file[i])) /\ "load_data" \in Range(log) =>
     outcome = "raised" /\ log = <<"load_data">>

\* what the code does with such records: one goes through every call into the
\* output, a second one is removed by remove_duplicates
MissingKey_Kept ==
  PipelineOutput /\ \E k \in DOMAIN df : isna(df[k].profile_url)

MissingKey_Deduplicated ==
  /\ CalledLast("remove_duplicates")
  /\ Len(prev) = 2 /\ Len(df) = 1
  /\ \A i \in DOMAIN prev : isna(prev[i].profile_url)

(* ------------------------------ C27 ---------------------------------- *)

\* the record of the line, alone in a collection, is left by the
\* invalid-credential filter, the repeated-value filter, the country filter
\* (when enabled) and the completeness filter
PassesAlone(line, with_filter) ==
  LET normalized ==
        extract_country(standardize_specialties(clean_experience(
          clean_qualifications(remove_repeated_values(
            remove_bmdc_profiles(read_csv(<<line>>)))))))
      filtered == IF with_filter
                  THEN filter_countries(normalized, <<<<"B","a","n","g","l","a","d","e","s","h">>, <<"I","n","d","i","a">>>>)
                  ELSE normalized
  IN  drop_missing_critical(filtered) # << >>

\* C27: for every profile_url, if the input has a record of that key which on
\* its own passes the invalid-credential, repeated-value, country and
\* completeness filters, the pipeline output has a record of that key, whatever
\* other records share the key and whatever their order.
C27_PassingKeyKept ==
  PipelineOutput =>
    \A i \in DOMAIN file :
       ~MissingKey(file[i]) /\ PassesAlone(file[i], FilterEnabled) =>
          \E k \in DOMAIN df : df[k].profile_url = Str(file[i].profile_url)

(* ------------------------------ C28 ---------------------------------- *)

\* C28: no record of the pipeline output has a qualifications text that starts
\* with "BMDC", the records whose qualifications the boilerplate strip changed
\* included.
C28_NoBmdcAfterStrip ==
  PipelineOutput => \A i \in DOMAIN df : ~StartsWithBMDC(QualificationsText(df[i]))

(* ------------------------------ C29 ---------------------------------- *)

StrictlyIncreasing(f) ==
  \A k \in DOMAIN f, l \in DOMAIN f : k < l => f[k] < f[l]

\* every record of rows is the record of one line of the file, of the same
\* profile_url, the lines all different and in the order of rows
OnlyRemoved(rows) ==
  \E f \in [DOMAIN rows -> DOMAIN file] :
     /\ StrictlyIncreasing(f)
     /\ \A k \in DOMAIN rows : rows[k].profile_url = parse_cell(file[f[k]].profile_url)

\* C29: the cleaning pipeline only removes records: every record of the output
\* corresponds to one record of the input with the same profile_url, no record
\* is added or duplicated, and the output records are in the relative order of
\* the input. It holds after every call of the pipeline (up to reset_index a
\* record still carries the label of its line), of the file save writes too.
C29_OnlyRemoves ==
  IsPipeline /\ "load_data" \in Range(log) =>
    /\ OnlyRemoved(df)
    /\ Len(df) <= Len(prev) \/ Last(log) = "load_data"
    /\ "reset_index" \notin Range(log) =>
          /\ StrictlyIncreasing([k \in DOMAIN df |-> df[k].index])
          /\ \A k \in DOMAIN df :
                df[k].profile_url = parse_cell(file[df[k].index + 1].profile_url)
    /\ wrote => OnlyRemoved(saved)

\* two records of different keys went through the pipeline, in their order
C29_Witness ==
  /\ PipelineOutput /\ Len(file) = 2 /\ Len(df) = 2
  /\ df[1].profile_url # df[2].profile_url
  /\ df[1].profile_url = Str(file[1].profile_url)
  /\ saved = df

(* ------------------------------ C23 ---------------------------------- *)

\* two characters of the set next to each other in the text
HasRun(chars, text) ==
  \E i \in 1..(Len(text) - 1) : text[i] \in chars /\ text[i + 1] \in chars

\* C23: the qualifications string extract_all_qualifications returns never has
\* two consecutive whitespace characters and never has two consecutive commas,
\* whatever the lines.
C23_NoRuns ==
  Returned =>
    /\ ~HasRun(Whitespace, details.qualifications)
    /\ ~HasRun({","}, details.qualifications)

\* the half of it that holds: no two consecutive whitespace characters
Qualifications_NoWhitespaceRun ==
  Returned => ~HasRun(Whitespace, details.qualifications)

(* ===================================================================== *)
(* Unified_Sasthyaseba_Scraper.py: SasthyasebaScraper.run                *)
(* ===================================================================== *)

\* a file of the scraper holds one row per record, a field per column, as text;
\* links and profile URLs are written without the scheme and host of the site

ScraperColumns ==
  {"profile_url", "name", "qualifications", "specialty", "experience", "hospital",
   "location"}

\* s.split(ch)[0]: the text before the first ch
first_part(s, ch) ==
  LET at == {i \in DOMAIN s : s[i] = ch} IN
  IF at = {} THEN s
  ELSE SubSeq(s, 1, (CHOOSE a \in at : \A k \in at : a <= k) - 1)

\* the loop over all_links: doctor_profiles after the links from i on; a link
\* without href has the empty text
RECURSIVE collect_links(_, _, _, _)
collect_links(all_links, i, doctor_profiles, existing) ==
  IF i > Len(all_links) THEN doctor_profiles
  ELSE LET href == first_part(first_part(all_links[i], "?"), "#") IN
       collect_links(all_links, i + 1,
         IF /\ all_links[i] # << >> /\ contains(<<"/","d","o","c","t","o","r","s","/">>, all_links[i])
            /\ href \notin Range(doctor_profiles) /\ href \notin existing
         THEN Append(doctor_profiles, href)
         ELSE doctor_profiles,
         existing)

\* the profile links of a search page, those of existing_urls too
extract_profile_urls_of_all(all_links, existing) ==
  collect_links(all_links, 1, << >>, {})

extract_profile_urls(all_links, existing) ==
  collect_links(all_links, 1, << >>, existing)

\* pd.read_csv raises EmptyDataError on a file of no column, df['profile_url']
\* raises KeyError on a file without that column
load_raises(f) == f.columns = {} \/ "profile_url" \notin f.columns

\* df.to_dict('records'): a record per row, every field parsed
to_dict(rows) ==
  [i \in DOMAIN rows |-> [c \in DOMAIN rows[i] |-> parse_cell(rows[i][c])]]

\* set(df['profile_url'].tolist()), the missing keys left out: no href equals one
profile_urls(records) ==
  {records[i].profile_url.s : i \in {k \in DOMAIN records : isstr(records[k].profile_url)}}

\* pd.DataFrame(self.all_data).to_csv(self.output_file, index=False): the file
\* is written anew, a missing value as an empty field
save_progress(data) ==
  [exists  |-> TRUE,
   columns |-> UNION {DOMAIN data[i] : i \in DOMAIN data},
   rows    |-> [i \in DOMAIN data |->
                 [c \in DOMAIN data[i] |->
                    IF isna(data[i][c]) THEN << >> ELSE astype_str(data[i][c])]]]

\* the profile page of a doctor of the site; driver.get raises on the page of x
ProfileText ==
  <<<<"D","r","."," ","A"," ","B">>, <<"M","B","B","S",","," ","F","C","P","S">>, <<"C","a","r","d","i","o","l","o","g","i","s","t">>, <<"5"," ","Y","e","a","r","s"," ","o","f"," ","E","x","p","e","r","i","e","n","c","e">>,
    <<"S","q","u","a","r","e"," ","H","o","s","p","i","t","a","l">>, <<"D","h","a","n","m","o","n","d","i",","," ","D","h","a","k","a">>>>

page_fails(profile_url) == profile_url = <<"/","d","o","c","t","o","r","s","/","x">>

\* scrape_profile(profile_url): the details, or none when the page raised
scrape_profile(profile_url) ==
  IF page_fails(profile_url) THEN << >>
  ELSE LET body == stripped_lines(ProfileText) IN
       <<[profile_url    |-> Str(profile_url),
          name           |-> Str(extract_name(NoElement, body)),
          qualifications |-> Str(extract_all_qualifications(body)),
          specialty      |-> Str(extract_specialty(body)),
          experience     |-> Str(extract_experience(body)),
          hospital       |-> Str(extract_hospital_location(body)[1]),
          location       |-> Str(extract_hospital_location(body)[2])]>>

\* "Save every 25 records"
save_every == 25

(* ------------------------------ inputs ------------------------------- *)

\* get_total_pages(): 310, 45 or 355 in the code
MaxPages == 2

total_pages == MaxPages

SearchPage(links) == [ok |-> TRUE, links |-> links]

\* driver.get raises on the search page
NoSearchPage == [ok |-> FALSE, links |-> << >>]

\* one link more than a save takes
ManyLinks == [n \in 1..(save_every + 1) |-> <<"/","d","o","c","t","o","r","s","/">> \o str_of_int(n)]

SearchPages ==
  {SearchPage(<<<<"/","d","o","c","t","o","r","s","/","a">>, <<"/","d","o","c","t","o","r","s","/","x">>, <<"/","d","o","c","t","o","r","s","/","b">>>>),
   SearchPage(<<<<"/","d","o","c","t","o","r","s","/","b","?","r","e","f","=","1">>, << >>, <<"/","h","o","s","p","i","t","a","l","s","/","1">>, <<"/","d","o","c","t","o","r","s","/","c","#","t","o","p">>,
                <<"/","d","o","c","t","o","r","s","/","b">>>>),
   SearchPage(ManyLinks),
   NoSearchPage}

Sites == [1..MaxPages -> SearchPages]

ScraperRow(url, hospital) ==
  [profile_url |-> url, name |-> <<"D","r","."," ","A"," ","B">>, qualifications |-> <<"M","B","B","S",","," ","F","C","P","S">>,
   specialty |-> <<"C","a","r","d","i","o","l","o","g","i","s","t">>, experience |-> <<"N","/","A">>, hospital |-> hospital,
   location |-> <<"D","h","a","n","m","o","n","d","i",","," ","D","h","a","k","a">>]

PriorFiles ==
  {NoFile,
   [exists |-> TRUE, columns |-> {}, rows |-> << >>],
   [exists |-> TRUE, columns |-> ScraperColumns,
    rows |-> <<ScraperRow(<<"/","d","o","c","t","o","r","s","/","a">>, <<"N","/","A">>),
               ScraperRow(<<"/","d","o","c","t","o","r","s","/","c">>, <<"S","q","u","a","r","e"," ","H","o","s","p","i","t","a","l">>)>>],
   [exists |-> TRUE, columns |-> ScraperColumns,
    rows |-> <<ScraperRow(<<"/","d","o","c","t","o","r","s","/","b">>, <<"S","q","u","a","r","e"," ","H","o","s","p","i","t","a","l">>)>>],
   [exists |-> TRUE, columns |-> {"url", "name"},
    rows |-> <<[url |-> <<"/","d","o","c","t","o","r","s","/","a">>, name |-> <<"D","r","."," ","A"," ","B">>]>>]}

(* -------------------------------- run -------------------------------- *)

InitRun ==
  /\ listing \in Sites
  /\ prior_file \in PriorFiles
  /\ output_file = prior_file
  /\ existing_urls = {} /\ all_data = << >> /\ all_urls = << >>
  /\ page_num = 0 /\ idx = 0
  /\ run_pc = "load"
  /\ file = << >> /\ prog = "run"
  /\ si = 1 /\ ci = 1 /\ recv = "self" /\ outcome = "running"
  /\ df = << >> /\ prev = << >> /\ log = << >>
  /\ saved = << >> /\ wrote = FALSE
  /\ NoProfile
  /\ NoFix

\* load_existing_data: an exception leaves existing_urls and all_data as
\* __init__ made them
load_existing_data ==
  /\ run_pc = "load"
  /\ IF output_file.exists /\ ~load_raises(output_file)
     THEN /\ existing_urls' = profile_urls(to_dict(output_file.rows))
          /\ all_data' = to_dict(output_file.rows)
     ELSE UNCHANGED <<existing_urls, all_data>>
  /\ page_num' = 1
  /\ run_pc' = "phase1"
  /\ UNCHANGED <<listing, prior_file, output_file, all_urls, idx>>
  /\ UNCHANGED <<cleaner_vars, scraper_vars, fixer_vars>>

\* phase 1, one search page: its new links, or none when the page raises
CollectUrls ==
  /\ run_pc = "phase1"
  /\ page_num <= total_pages
  /\ all_urls' = all_urls \o
       (IF listing[page_num].ok
        THEN extract_profile_urls(listing[page_num].links, existing_urls)
        ELSE << >>)
  /\ page_num' = page_num + 1
  /\ UNCHANGED <<listing, prior_file, output_file, existing_urls, all_data, idx,
                 run_pc>>
  /\ UNCHANGED <<cleaner_vars, scraper_vars, fixer_vars>>

\* "if not all_urls: return", or phase 2 starts
EndPhase1 ==
  /\ run_pc = "phase1"
  /\ page_num > total_pages
  /\ IF all_urls = << >>
     THEN run_pc' = "nothing_new" /\ idx' = idx
     ELSE run_pc' = "scrape" /\ idx' = 1
  /\ UNCHANGED <<listing, prior_file, output_file, existing_urls, all_data,
                 all_urls, page_num>>
  /\ UNCHANGED <<cleaner_vars, scraper_vars, fixer_vars>>

\* phase 2, one profile: the details appended when there are any
ScrapeProfile ==
  /\ run_pc = "scrape"
  /\ idx <= Len(all_urls)
  /\ all_data' = all_data \o scrape_profile(all_urls[idx])
  /\ run_pc' = "checkpoint"
  /\ UNCHANGED <<listing, prior_file, output_file, existing_urls, all_urls,
                 page_num, idx>>
  /\ UNCHANGED <<cleaner_vars, scraper_vars, fixer_vars>>

\* the next profile without a save
NoSaveEvery25 ==
  /\ run_pc = "checkpoint"
  /\ idx' = idx + 1
  /\ run_pc' = "scrape"
  /\ UNCHANGED <<listing, prior_file, output_file, existing_urls, all_data, all_urls,
                 page_num>>
  /\ UNCHANGED <<cleaner_vars, scraper_vars, fixer_vars>>

\* "if idx % 25 == 0: self.save_progress()" and the next profile
SaveEvery25 ==
  /\ run_pc = "checkpoint"
  /\ output_file' = IF idx % save_every = 0 THEN save_progress(all_data)
                    ELSE output_file
  /\ idx' = idx + 1
  /\ run_pc' = "scrape"
  /\ UNCHANGED <<listing, prior_file, existing_urls, all_data, all_urls, page_num>>
  /\ UNCHANGED <<cleaner_vars, scraper_vars, fixer_vars>>

\* "Final save"
FinalSave ==
  /\ run_pc = "scrape"
  /\ idx > Len(all_urls)
  /\ output_file' = save_progress(all_data)
  /\ run_pc' = "complete"
  /\ UNCHANGED <<listing, prior_file, existing_urls, all_data, all_urls, page_num,
                 idx>>
  /\ UNCHANGED <<cleaner_vars, scraper_vars, fixer_vars>>

\* "except KeyboardInterrupt": the interrupt comes anywhere in the try block
KeyboardInterrupt ==
  /\ run_pc \in {"phase1", "scrape", "checkpoint"}
  /\ output_file' = save_progress(all_data)
  /\ run_pc' = "interrupted"
  /\ UNCHANGED <<listing, prior_file, existing_urls, all_data, all_urls, page_num,
                 idx>>
  /\ UNCHANGED <<cleaner_vars, scraper_vars, fixer_vars>>

NextRun ==
  \/ load_existing_data
  \/ CollectUrls
  \/ EndPhase1
  \/ ScrapeProfile
  \/ SaveEvery25
  \/ FinalSave
  \/ KeyboardInterrupt

SpecRun == InitRun /\ [][NextRun]_vars

(* ---------------------- the claims on run: terms --------------------- *)

\* run read the file it found into existing_urls and all_data
LoadedPrior == prior_file.exists /\ ~load_raises(prior_file)

\* the profile_url fields of a file, in row order
KeysOf(f) ==
  IF "profile_url" \in f.columns
  THEN [i \in DOMAIN f.rows |-> f.rows[i].profile_url]
  ELSE << >>

Distinct(s) == \A i \in DOMAIN s, j \in DOMAIN s : i # j => s[i] # s[j]

RunEnded == run_pc \in {"complete", "interrupted"}

InPhase2 == run_pc \in {"scrape", "checkpoint", "complete"}

\* the records of a file as a reader of the file gets them
Records(f) == to_dict(f.rows)

\* record k of all_data is row k of the file
Written(k) ==
  /\ k \in DOMAIN output_file.rows
  /\ Records(output_file)[k] = Records(save_progress(all_data))[k]

(* ------------------------------ C22 ---------------------------------- *)

\* C22: in a run that loaded a prior collection no profile page is fetched or
\* extracted for a profile_url that is a key of the prior collection, whatever
\* links the search pages return: no such URL is among those phase 2 goes
\* through, the prior records stay as loaded and no record after them has such
\* a key.
C22_NoRefetch ==
  LoadedPrior /\ run_pc # "load" =>
    /\ \A k \in DOMAIN all_urls : all_urls[k] \notin Range(KeysOf(prior_file))
    /\ Len(all_data) >= Len(prior_file.rows)
    /\ SubSeq(all_data, 1, Len(prior_file.rows)) = Records(prior_file)
    /\ \A k \in (Len(prior_file.rows) + 1)..Len(all_data) :
          all_data[k].profile_url.s \notin Range(KeysOf(prior_file))

\* a search page had a link of a prior key, and the run scraped other profiles
C22_Witness ==
  /\ LoadedPrior /\ run_pc = "complete"
  /\ \E p \in DOMAIN listing :
        \E i \in DOMAIN listing[p].links :
           listing[p].links[i] \in Range(KeysOf(prior_file))
  /\ Len(all_data) > Len(prior_file.rows)

(* ------------------------------ C24 ---------------------------------- *)

C25_PriorKept ==
  prior_file.exists =>
    /\ Len(Records(prior_file)) <= Len(Records(output_file))
    /\ SubSeq(Records(output_file), 1, Len(prior_file.rows)) = Records(prior_file)
    /\ \A k \in (Len(prior_file.rows) + 1)..Len(output_file.rows) :
          output_file.rows[k].profile_url \in Range(all_urls)

\* the same, of the runs that loaded the file
Loaded_PriorKept == LoadedPrior => C25_PriorKept

(* ------------------------------ C26 ---------------------------------- *)

\* C26: in one run each profile URL is scraped at most once, also when several
\* search pages return it, so a run on a prior collection of unique keys ends
\* with a saved collection of unique keys.
C26_ScrapedOnce ==
  /\ Distinct(all_urls)
  /\ RunEnded /\ Distinct(KeysOf(prior_file)) => Distinct(KeysOf(output_file))


(* ===================================================================== *)
(* Data Fixer - Missing Fields.py (src/unnamed/part_000)                 *)
(* ===================================================================== *)

\* extract_missing_fields(driver, profile_url), of the lines of the page:
\* the specialty, the hospital and the location, "N/A" for what is not found
extract_missing_fields(body) ==
  LET specialty_keywords ==
        <<<<"R","h","e","u","m","a","t","o","l","o","g","i","s","t">>, <<"C","a","r","d","i","o","l","o","g","i","s","t">>, <<"N","e","u","r","o","l","o","g","i","s","t">>, <<"D","e","r","m","a","t","o","l","o","g","i","s","t">>,
          <<"N","e","p","h","r","o","l","o","g","i","s","t">>, <<"O","n","c","o","l","o","g","i","s","t">>, <<"E","n","d","o","c","r","i","n","o","l","o","g","i","s","t">>, <<"G","a","s","t","r","o","e","n","t","e","r","o","l","o","g","i","s","t">>,
          <<"P","u","l","m","o","n","o","l","o","g","i","s","t">>, <<"H","e","m","a","t","o","l","o","g","i","s","t">>, <<"R","a","d","i","o","l","o","g","i","s","t">>, <<"P","a","t","h","o","l","o","g","i","s","t">>,
          <<"A","n","e","s","t","h","e","s","i","o","l","o","g","i","s","t">>, <<"O","p","h","t","h","a","l","m","o","l","o","g","i","s","t">>, <<"N","e","o","n","a","t","o","l","o","g","i","s","t">>, <<"G","y","n","e","c","o","l","o","g","i","s","t">>,
          <<"U","r","o","l","o","g","i","s","t">>, <<"I","m","m","u","n","o","l","o","g","i","s","t">>,
          <<"S","p","e","c","i","a","l","i","s","t">>, <<"M","e","d","i","c","i","n","e"," ","S","p","e","c","i","a","l","i","s","t">>, <<"C","h","e","s","t"," ","S","p","e","c","i","a","l","i","s","t">>,
          <<"R","e","s","p","i","r","a","t","o","r","y"," ","S","p","e","c","i","a","l","i","s","t">>, <<"C","r","i","t","i","c","a","l"," ","C","a","r","e"," ","M","e","d","i","c","i","n","e"," ","S","p","e","c","i","a","l","i","s","t">>,
          <<"D","i","a","b","e","t","e","s"," ","S","p","e","c","i","a","l","i","s","t">>, <<"F","a","m","i","l","y"," ","M","e","d","i","c","i","n","e"," ","S","p","e","c","i","a","l","i","s","t">>,
          <<"S","u","r","g","e","o","n">>, <<"G","e","n","e","r","a","l"," ","S","u","r","g","e","o","n">>, <<"N","e","u","r","o","s","u","r","g","e","o","n">>, <<"C","a","r","d","i","o","v","a","s","c","u","l","a","r"," ","S","u","r","g","e","o","n">>,
          <<"T","h","o","r","a","c","i","c"," ","S","u","r","g","e","o","n">>, <<"V","a","s","c","u","l","a","r"," ","S","u","r","g","e","o","n">>, <<"P","l","a","s","t","i","c"," ","S","u","r","g","e","o","n">>,
          <<"C","o","l","o","r","e","c","t","a","l"," ","S","u","r","g","e","o","n">>, <<"H","e","p","a","t","o","b","i","l","i","a","r","y"," ","S","u","r","g","e","o","n">>, <<"O","r","t","h","o","p","e","d","i","c"," ","S","u","r","g","e","o","n">>,
          <<"M","a","x","i","l","l","o","f","a","c","i","a","l"," ","S","u","r","g","e","o","n">>, <<"D","e","n","t","a","l"," ","S","u","r","g","e","o","n">>,
          <<"P","e","d","i","a","t","r","i","c","i","a","n">>, <<"O","b","s","t","e","t","r","i","c","i","a","n">>, <<"P","s","y","c","h","i","a","t","r","i","s","t">>, <<"D","e","n","t","i","s","t">>, <<"E","N","T">>>>
      skip_1 == <<<<"M","B","B","S">>, <<"F","C","P","S">>, <<"B","C","S">>, <<"M","D">>, <<"M","S">>, <<"Y","e","a","r","s">>, <<"H","o","s","p","i","t","a","l">>,
                  <<"D","h","a","k","a">>, <<"B","a","n","g","l","a","d","e","s","h">>, <<"B","o","o","k">>, <<"G","e","t">>, <<"F","i","n","d">>, <<"V","i","e","w">>,
                  <<"D","o","c","t","o","r">>>>
      quals == <<<<"M","B","B","S">>, <<"F","C","P","S">>, <<"M","D">>, <<"M","S">>>>
      \* the loop over the keywords sets the specialty to the line, whichever
      \* keyword is the first to match
      by_keyword(line) ==
        /\ ~any_in(skip_1, line)
        /\ \E k \in Range(specialty_keywords) :
              \/ lower(k) = lower(line)
              \/ /\ contains(lower(k), lower(line)) /\ Len(line) < 100
                 /\ ~any_in(quals, line)
      ends == <<<<"o","l","o","g","i","s","t">>, <<"l","o","g","i","s","t">>, <<"i","s","t">>, <<"i","a","n">>, <<"i","c","i","a","n">>, <<"S","p","e","c","i","a","l","i","s","t">>,
                <<"S","u","r","g","e","o","n">>, <<"C","o","n","s","u","l","t","a","n","t">>>>
      skip_2 == <<<<"M","B","B","S">>, <<"F","C","P","S">>, <<"Y","e","a","r","s">>, <<"H","o","s","p","i","t","a","l">>>>
      by_suffix(line) ==
        /\ 5 < Len(line) /\ Len(line) < 40 /\ isupper(line[1])
        /\ \E e \in Range(ends) : endswith(line, e)
        /\ ~any_in(skip_2, line)
      first_of(head, test(_)) ==
        LET at == {i \in DOMAIN head : test(head[i])} IN
        IF at = {} THEN NA ELSE head[CHOOSE a \in at : \A k \in at : a <= k]
      method_1_line == first_of(first_lines(body, 15), by_keyword)
      specialty == IF method_1_line # NA THEN method_1_line
                   ELSE first_of(first_lines(body, 20), by_suffix)
      named == <<<<"H","o","s","p","i","t","a","l">>, <<"M","e","d","i","c","a","l"," ","C","e","n","t","r","e">>, <<"M","e","d","i","c","a","l"," ","C","e","n","t","e","r">>, <<"C","l","i","n","i","c">>,
                 <<"H","e","a","l","t","h","c","a","r","e">>, <<"M","e","d","i","c","a","l"," ","C","o","l","l","e","g","e">>>>
      excluded == <<<<"F","i","n","d"," ","H","o","s","p","i","t","a","l">>, <<"G","e","t"," ","D","i","r","e","c","t","i","o","n">>, <<"B","o","o","k"," ","A","p","p","o","i","n","t","m","e","n","t">>,
                    <<"A","v","a","i","l","a","b","i","l","i","t","y">>, <<"W","o","r","k"," ","E","x","p","e","r","i","e","n","c","e">>, <<"E","d","u","c","a","t","i","o","n">>, <<"L","o","c","a","t","i","o","n","s">>,
                    <<"B","o","o","k"," ","a","p","p","o","i","n","t","m","e","n","t">>, <<"V","i","e","w"," ","a","l","l">>, <<"I","n","f","o">>>>
      starts == <<<<"B","o","o","k">>, <<"V","i","e","w">>, <<"F","i","n","d">>, <<"G","e","t">>>>
      hospital_line(line) ==
        /\ any_in(named, line)
        /\ Len(line) < 200 /\ ~any_in(excluded, line)
        /\ Len(line) > 5
        /\ \A p \in Range(starts) : ~startswith(line, p)
      not_location == <<<<"G","e","t"," ","D","i","r","e","c","t","i","o","n">>, <<"B","o","o","k"," ","A","p","p","o","i","n","t","m","e","n","t">>, <<"A","v","a","i","l","a","b","i","l","i","t","y">>,
                        <<"F","i","n","d"," ","H","o","s","p","i","t","a","l">>, <<"I","n","f","o">>>>
      signals == <<<<",">>, <<"R","o","a","d">>, <<"R","d">>, <<"D","h","a","k","a">>, <<"B","a","n","g","l","a","d","e","s","h">>, <<"N","o",".">>, <<"S","t","r","e","e","t">>,
                   <<"A","v","e","n","u","e">>, <<"C","h","i","t","t","a","g","o","n","g">>, <<"S","y","l","h","e","t">>, <<"R","a","j","s","h","a","h","i">>, <<"K","h","u","l","n","a">>,
                   <<"B","a","r","i","s","a","l">>, <<"C","i","t","y"," ","B","a","z","a","r">>, <<"B","u","i","l","d","i","n","g">>, <<"C","i","r","c","u","l","a","r">>>>
      location_line(line) ==
        /\ Len(line) > 15
        /\ ~any_in(not_location, line)
        /\ any_in(signals, line)
      found == {i \in DOMAIN body : hospital_line(body[i])}
      i     == CHOOSE a \in found : \A k \in found : a <= k
      \* range(i+1, min(i+5, len(lines))), the lines numbered from 0 there
      near  == {j \in DOMAIN body : i < j /\ j <= i + 4 /\ location_line(body[j])}
  IN  [specialty |-> specialty,
       hospital  |-> IF found = {} THEN NA ELSE body[i],
       location  |-> IF found = {} \/ near = {} THEN NA
                     ELSE body[CHOOSE a \in near : \A k \in near : a <= k]]

\* "except Exception": what extract_missing_fields returns when the page raises
nothing_extracted == [specialty |-> NA, hospital |-> NA, location |-> NA]

\* pd.isna(value) or value == 'N/A'
needs(value) == isna(value) \/ value = Str(NA)

needs_fixing(row) == needs(row.specialty) \/ needs(row.hospital) \/ needs(row.location)

\* the fields in the order main looks at them
fix_fields == <<"specialty", "hospital", "location">>

\* read_csv gives float64 to a column of no value; df.at[idx, column] = text
\* raises on such a column in a pandas that does not change the dtype
is_float64(frame, column) == \A i \in DOMAIN frame : isna(frame[i][column])

\* every field of extracted written, found or not
update_any_field(frame, counts, row, extracted, raising, n) ==
  [df |-> [frame EXCEPT ![row.index + 1] =
             [c \in DOMAIN @ |->
                IF c \in Range(fix_fields) THEN Str(extracted[c]) ELSE @[c]]],
   fixed_counts |-> counts,
   raised |-> FALSE]

\* "Update only if we found better data", from field n on: the data frame, the
\* counts, and whether an assignment raised
RECURSIVE update_fields(_, _, _, _, _, _)
update_fields(frame, counts, row, extracted, raising, n) ==
  IF n > Len(fix_fields)
  THEN [df |-> frame, fixed_counts |-> counts, raised |-> FALSE]
  ELSE LET c == fix_fields[n] IN
       IF needs(row[c]) /\ extracted[c] # NA
       THEN IF raising /\ is_float64(frame, c)
            THEN [df |-> frame, fixed_counts |-> counts, raised |-> TRUE]
            ELSE update_fields([frame EXCEPT ![row.index + 1][c] = Str(extracted[c])],
                               [counts EXCEPT ![c] = @ + 1],
                               row, extracted, raising, n + 1)
       ELSE update_fields(frame, counts, row, extracted, raising, n + 1)

\* "Save progress every 50 records"
fix_save_every == 50

\* df.to_csv(output_file, index=False)
fixed_file(frame) == [exists |-> TRUE, columns |-> Columns, rows |-> to_csv(frame)]

(* ------------------------------ inputs ------------------------------- *)

MaxFixRows == 2

FixLines ==
  {BaseLine,
   With(With(BaseLine, "profile_url", <<"u","2">>), "hospital", <<"N","/","A">>),
   With(With(BaseLine, "specialty", <<"N","/","A">>), "location", << >>),
   With(With(With(BaseLine, "specialty", << >>), "hospital", << >>), "location", <<"N","/","A">>)}

FixFiles == RowsUpTo(MaxFixRows, FixLines)

\* the text of the profile pages the site can give, and no page (driver.get raises)
NoPage == <<<<"driver.get raises">>>>

FixPages ==
  {<<<<"D","r","."," ","A"," ","B">>, <<"M","B","B","S",","," ","F","C","P","S">>, <<"N","e","u","r","o","l","o","g","i","s","t">>, <<"A","p","o","l","l","o"," ","H","o","s","p","i","t","a","l">>,
     <<"P","l","o","t"," ","8","1",","," ","B","a","s","h","u","n","d","h","a","r","a",","," ","D","h","a","k","a">>>>,
   <<<<"D","r","."," ","A"," ","B">>, <<"B","o","o","k"," ","A","p","p","o","i","n","t","m","e","n","t">>, <<" "," ","P","h","y","s","i","c","i","a","n"," ">>, << >>, <<"C","i","t","y"," ","C","l","i","n","i","c">>,
     <<"G","e","t"," ","D","i","r","e","c","t","i","o","n">>>>,
   <<<<"D","r","."," ","A"," ","B">>, <<"H","o","m","e">>>>,
   NoPage}

(* ------------------------------- main -------------------------------- *)

InitFix ==
  /\ file \in FixFiles
  /\ prog = "fixer"
  /\ si = 1 /\ ci = 1 /\ recv = "self" /\ outcome = "running"
  /\ df = << >> /\ prev = << >> /\ log = << >>
  /\ saved = << >> /\ wrote = FALSE
  /\ NoProfile
  /\ NoRun
  /\ records_to_fix = << >> /\ fix_at = 0
  /\ fixed_counts = [specialty |-> 0, hospital |-> 0, location |-> 0]
  /\ fix_pc = "read"

fix_frame == <<file, prog, si, ci, recv, outcome, log, saved, wrote>>
fix_others == <<listing, prior_file, existing_urls, all_data, all_urls, page_num,
                idx, run_pc>>

\* "Read CSV" and "Identify records needing fixes"
ReadRecords ==
  /\ fix_pc = "read"
  /\ df' = read_csv(file)
  /\ records_to_fix' = SelectSeq(df', needs_fixing)
  /\ IF records_to_fix' = << >>
     THEN fix_pc' = "nothing_to_fix" /\ fix_at' = fix_at
     ELSE fix_pc' = "fix" /\ fix_at' = 1
  /\ UNCHANGED <<fixed_counts, output_file, prev, page_text, name_elem, lines,
                 details, pc>>
  /\ UNCHANGED <<fix_frame, fix_others>>

\* one row of records_to_fix: the page of its profile, the fields it lacks
\* written, and the save; prev is the data frame before it
FixRecord ==
  /\ fix_pc = "fix"
  /\ fix_at <= Len(records_to_fix)
  /\ \E body \in FixPages, raising \in BOOLEAN :
        LET row       == records_to_fix[fix_at]
            extracted == IF body = NoPage THEN nothing_extracted
                         ELSE extract_missing_fields(stripped_lines(body))
            updated   == update_fields(df, fixed_counts, row, extracted, raising, 1)
            counts    == updated.fixed_counts
        IN  /\ page_text' = body
            /\ df' = updated.df
            /\ fixed_counts' = counts
            /\ output_file' =
                 IF ~updated.raised
                    /\ (counts.specialty + counts.hospital) % fix_save_every = 0
                 THEN fixed_file(updated.df)
                 ELSE output_file
  /\ prev' = df
  /\ fix_at' = fix_at + 1
  /\ UNCHANGED <<records_to_fix, fix_pc, name_elem, lines, details, pc>>
  /\ UNCHANGED <<fix_frame, fix_others>>

\* "Final save"
FixFinalSave ==
  /\ fix_pc = "fix"
  /\ fix_at > Len(records_to_fix)
  /\ output_file' = fixed_file(df)
  /\ fix_pc' = "complete"
  /\ UNCHANGED <<df, prev, records_to_fix, fix_at, fixed_counts>>
  /\ UNCHANGED <<fix_frame, fix_others, scraper_vars>>

\* "except KeyboardInterrupt"
FixInterrupted ==
  /\ fix_pc = "fix"
  /\ output_file' = fixed_file(df)
  /\ fix_pc' = "interrupted"
  /\ UNCHANGED <<df, prev, records_to_fix, fix_at, fixed_counts>>
  /\ UNCHANGED <<fix_frame, fix_others, scraper_vars>>

NextFix ==
  \/ ReadRecords
  \/ FixRecord
  \/ FixFinalSave
  \/ FixInterrupted

SpecFix == InitFix /\ [][NextFix]_vars

(* ------------------------------ C30 ---------------------------------- *)

\* the data frame as the fixer read it
AsRead == read_csv(file)

\* frame differs from what was read only in fields of specialty, hospital and
\* location that were missing and are not missing now
OnlyMissingFilled(frame) ==
  /\ Len(frame) = Len(AsRead)
  /\ \A i \in DOMAIN frame :
        /\ DOMAIN frame[i] = DOMAIN AsRead[i]
        /\ \A c \in DOMAIN frame[i] :
              frame[i][c] # AsRead[i][c] =>
                 /\ c \in {"specialty", "hospital", "location"}
                 /\ needs(AsRead[i][c])
                 /\ NonMissing(frame[i][c])
        /\ ~needs_fixing(AsRead[i]) => frame[i] = AsRead[i]

\* C30: the data fixer writes a field (specialty, hospital or location) of a
\* record only when the field was missing before and the re-extracted value is
\* not missing; every field that was not missing before the run, every other
\* column and every record with no missing critical field stay as they were,
\* also when the re-extraction fails: in the data frame at every point, and in
\* the file the fixer writes.
C30_OnlyMissingFilled ==
  fix_pc # "read" =>
    /\ OnlyMissingFilled(df)
    /\ output_file.exists => OnlyMissingFilled(read_csv(output_file.rows))
    /\ page_text = NoPage => df = prev

\* a record got the hospital it lacked, its specialty as it was; another record
\* lacks nothing
C30_Witness ==
  /\ fix_pc = "complete"
  /\ \E i \in DOMAIN df :
        /\ needs(AsRead[i].hospital) /\ NonMissing(df[i].hospital)
        /\ NonMissing(AsRead[i].specialty)
  /\ \E i \in DOMAIN df : ~needs_fixing(AsRead[i])

\* the page of a record that lacks a field raised
C30_PageRaised ==
  /\ fix_pc = "fix" /\ fix_at > 1 /\ page_text = NoPage
  /\ needs_fixing(df[records_to_fix[fix_at - 1].index + 1])
====
